---- MODULE Spec2Model ----
(***************************************************************************)
(* A model of SkyDNS: the DNS front-end over an etcd store.                *)
(*                                                                         *)
(* Two generations of the query handler live in the repository and both    *)
(* are modelled: the handler of package server (server/server.go), called  *)
(* ServeDNS here, and the older handler of package main, called            *)
(* ServeDNSMain here.  The forwarder, the reverse handler, the store       *)
(* access (Get, loopNodes, calculateTtl) and Lookup exist only in the      *)
(* package-main sources and are shared by both handlers.                   *)
(*                                                                         *)
(* Go strings are sequences of tokens.  A token stands for a piece of a    *)
(* string that is never split any further ("skydns", "."), so that         *)
(* HasSuffix, Split, ToLower and Fqdn work on the characters of the name   *)
(* and not on its labels.                                                  *)
(***************************************************************************)
EXTENDS Integers, Sequences, FiniteSets, TLC

VARIABLES store, dirs, expired, now, config, rcache, resp

vars == <<store, dirs, expired, now, config, rcache, resp>>

(***************************************************************************)
(* Bounds of the model.                                                    *)
(***************************************************************************)
\* config.Ttl, the default TTL (3600 in setDefaults), scaled down
CfgTtl == 3
\* config.MinTtl, the TTL of negative answers (60 in setDefaults), scaled down
CfgMinTtl == 1
\* config.RCacheTtl, the life time of a response cache entry, scaled down
CfgRCacheTtl == 2
\* the largest number of configured upstream nameservers
MaxNameservers == 2
\* request ids are drawn from 0 .. MaxId
MaxId == 1
\* the clock runs from 0 to MaxTime
MaxTime == 2
\* the longest CNAME chain built in SpecCNAME
MaxChain == 10

(***************************************************************************)
(* Strings.                                                                *)
(***************************************************************************)
Dot == "."
Slash == "/"

\* strings.ToLower on one token
LowerTok(t) == IF t = "A" THEN "a" ELSE IF t = "B" THEN "b" ELSE t

\* strings.ToLower
ToLower(s) == [i \in 1..Len(s) |-> LowerTok(s[i])]

\* strings.HasSuffix
HasSuffix(s, suffix) ==
    /\ Len(s) >= Len(suffix)
    /\ SubSeq(s, Len(s) - Len(suffix) + 1, Len(s)) = suffix

\* dns.Fqdn: append the trailing dot when it is missing
Fqdn(s) == IF Len(s) > 0 /\ s[Len(s)] = Dot THEN s ELSE s \o <<Dot>>

RECURSIVE SplitAt(_, _, _)
\* strings.Split(s, sep), the part being collected is cur
SplitAt(s, sep, cur) ==
    IF s = <<>> THEN <<cur>>
    ELSE IF Head(s) = sep THEN <<cur>> \o SplitAt(Tail(s), sep, <<>>)
    ELSE SplitAt(Tail(s), sep, Append(cur, Head(s)))

Split(s, sep) == SplitAt(s, sep, <<>>)

RECURSIVE Join(_, _)
\* strings.Join(parts, sep)
Join(parts, sep) ==
    IF parts = <<>> THEN <<>>
    ELSE IF Len(parts) = 1 THEN parts[1]
    ELSE parts[1] \o <<sep>> \o Join(Tail(parts), sep)

Reverse(l) == [i \in 1..Len(l) |-> l[Len(l) + 1 - i]]

\* dns.SplitDomainName: the labels of a name, without the root label
SplitDomainName(s) ==
    LET f == Fqdn(s)
    IN  IF f = <<Dot>> THEN <<>>
        ELSE Split(SubSeq(f, 1, Len(f) - 1), Dot)

\* dns.IsSubDomain(parent, child): label-wise comparison from the right
IsSubDomain(parent, child) ==
    LET p == Reverse(SplitDomainName(ToLower(parent)))
        c == Reverse(SplitDomainName(ToLower(child)))
    IN  /\ Len(c) >= Len(p)
        /\ SubSeq(c, 1, Len(p)) = p

\* Path converts a domain name to an etcd path: a.skydns.test. becomes
\* /skydns/test/skydns/a
Path(s) ==
    <<Slash, "skydns">> \o
        (LET l == Reverse(SplitDomainName(s))
         IN  IF l = <<>> THEN <<>> ELSE <<Slash>> \o Join(l, Slash))

\* Domain is the opposite of Path; the last element of the key is kept
\* out of the name by the slice l[1:len(l)-1]
DomainOf(key) ==
    LET l  == Split(key, Slash)
        n  == Len(l)
        \* reverse l[1..n-1] in place (Go indices), l[0] is the empty part
        sw == [i \in 1..n |-> IF i = 1 THEN l[1] ELSE l[n + 2 - i]]
    IN  Fqdn(Join(SubSeq(sw, 2, n - 1), Dot))

(***************************************************************************)
(* Names of the model.                                                     *)
(***************************************************************************)
Name(labels) == Join(labels, Dot) \o <<Dot>>

\* config.Domain
Domain == Name(<<<<"skydns">>, <<"test">>>>)

NameA == Name(<<<<"a">>, <<"skydns">>, <<"test">>>>)
NameB == Name(<<<<"b">>, <<"skydns">>, <<"test">>>>)
NameXB == Name(<<<<"x">>, <<"b">>, <<"skydns">>, <<"test">>>>)
NameYB == Name(<<<<"y">>, <<"b">>, <<"skydns">>, <<"test">>>>)
NameNX == Name(<<<<"nx">>, <<"skydns">>, <<"test">>>>)
\* a name registered with a capital: A.b.skydns.test.
NameUpper == Name(<<<<"A">>, <<"b">>, <<"skydns">>, <<"test">>>>)
NameDns == Name(<<<<"dns">>, <<"skydns">>, <<"test">>>>)
NameExt == Name(<<<<"ext">>, <<"com">>>>)
NameRev == Name(<<<<"1">>, <<"in-addr">>, <<"arpa">>>>)
NameRevNX == Name(<<<<"2">>, <<"in-addr">>, <<"arpa">>>>)
\* xskydns.test.: its last characters are those of the domain, its labels
\* are not
NameLookalike == Name(<<<<"x", "skydns">>, <<"test">>>>)

IPv4 == <<"10.0.0.1">>
IPv4b == <<"10.0.0.2">>
IPv6 == <<"2001::1">>

\* net.ParseIP(host) != nil
IsIP(host) == host \in {IPv4, IPv4b, IPv6}
\* ip.To4() != nil
IsIP4(host) == host \in {IPv4, IPv4b}

(***************************************************************************)
(* The store: etcd.  A leaf node holds one service and an expiration      *)
(* time (0: none).  Directories come into being with the leaves put below *)
(* them and stay when the leaves go.  expired holds the keys of the       *)
(* leaves that etcd dropped when their time had come and that were not    *)
(* written again.                                                          *)
(***************************************************************************)
NoNode == [none |-> TRUE]

\* msg.Service / Service: the JSON value of a leaf
Service(host, ttl, text) ==
    [Host |-> host, Port |-> 0, Priority |-> 0, Weight |-> 0, Ttl |-> ttl,
     Text |-> text]

\* a name without its trailing dot, the way hosts are written in the store
HostOf(name) == SubSeq(name, 1, Len(name) - 1)

\* the leaves of the model, in the order etcd lists them
KeyOrder ==
    <<Path(NameA), Path(NameXB), Path(NameYB), Path(NameRev), Path(NameUpper)>>

\* the key is at or below the directory dir
Below(dir, key) ==
    /\ Len(key) > Len(dir)
    /\ SubSeq(key, 1, Len(dir)) = dir
    /\ key[Len(dir) + 1] = Slash

\* the directories above a key
DirsOf(key) == {SubSeq(key, 1, i - 1) : i \in {j \in 2..Len(key) : key[j] = Slash}}

\* node.TTL: the seconds a node has left, 0 when it does not expire
NodeTTL(node) == IF node.exp = 0 THEN 0 ELSE node.exp - now

\* calculateTtl returns the smaller of the etcd TTL and the service's TTL,
\* and the server default when neither is set
calculateTtl(node, serv) ==
    LET etcdTtl == NodeTTL(node)
    IN  IF etcdTtl = 0 /\ serv.Ttl = 0 THEN CfgTtl
        ELSE IF etcdTtl = 0 THEN serv.Ttl
        ELSE IF serv.Ttl = 0 THEN etcdTtl
        ELSE IF etcdTtl < serv.Ttl THEN etcdTtl
        ELSE serv.Ttl

\* config.Priority
CfgPriority == 10

\* the service a handler gets for a leaf: TTL computed, priority defaulted,
\* key attached
ServOf(key) ==
    LET node == store[key]
        serv == node.value
    IN  [serv EXCEPT !.Ttl = calculateTtl(node, serv),
                     !.Priority = IF serv.Priority = 0 THEN CfgPriority
                                  ELSE serv.Priority]
        @@ [key |-> key]

bareService(serv) == <<serv.Host, serv.Port, serv.Priority, serv.Weight>>

\* the wildcard label
Star == <<"*">>

\* Path of package main, two-valued: the path of a name up to its first
\* wildcard label, and whether there is one
PathWildcard(s) ==
    LET l == Reverse(SplitDomainName(s))
        w == {i \in 1..Len(l) : l[i] = Star}
    IN  IF w = {} THEN [path |-> Path(s), star |-> FALSE]
        ELSE LET i == CHOOSE j \in w : \A k \in w : j <= k
             IN  [path |-> <<Slash, "skydns">> \o
                              (IF i = 1 THEN <<>>
                               ELSE <<Slash>> \o Join(SubSeq(l, 1, i - 1), Slash)),
                  star |-> TRUE]

\* PathNoWildcard: the path of a name, its wildcard labels included
PathNoWildcard(s) == Path(s)

\* the loop over nameParts in loopNodes: the key of a leaf is compared part
\* by part, a part of the name that is the wildcard goes with any part
keyMatches(key, nameParts) ==
    LET keyParts == Split(key, Slash)
    IN  \A i \in 1..Len(nameParts) :
            /\ i <= Len(keyParts)
            /\ (nameParts[i] = Star \/ keyParts[i] = nameParts[i])

RECURSIVE loopKeys(_, _, _, _)
\* loopNodes: all leaves in keys (the leaves below a directory, in order),
\* matched against nameParts when star is set, and seen only once per
\* bareService.  bx is the set of bare services seen.
loopKeys(keys, nameParts, star, bx) ==
    IF keys = <<>> THEN <<>>
    ELSE LET raw == store[Head(keys)].value
         IN  IF star /\ ~keyMatches(Head(keys), nameParts)
                 THEN loopKeys(Tail(keys), nameParts, star, bx)
             ELSE IF bareService(raw) \in bx
                 THEN loopKeys(Tail(keys), nameParts, star, bx)
             ELSE <<ServOf(Head(keys))>>
                      \o loopKeys(Tail(keys), nameParts, star,
                                  bx \cup {bareService(raw)})

\* the keys of the leaves that exist below dir, in etcd's order
LeavesBelow(dir) ==
    SelectSeq(KeyOrder, LAMBDA k : k \in DOMAIN store /\ store[k] # NoNode
                                    /\ Below(dir, k))

loopNodes(dir) == loopKeys(LeavesBelow(dir), <<>>, FALSE, {})

\* loopNodes as package main calls it, below the path of a name
loopNodesMain(name) ==
    loopKeys(LeavesBelow(PathWildcard(name).path),
             Split(PathNoWildcard(name), Slash), PathWildcard(name).star, {})

\* Get that takes a key that is not there for a directory
Get_mutant(path, reach) ==
    IF ~reach THEN [err |-> "transport"]
    ELSE IF path \in DOMAIN store /\ store[path] # NoNode
        THEN [err |-> "nil", dir |-> FALSE]
    ELSE [err |-> "nil", dir |-> TRUE]

\* client.Get(path): a leaf, a directory, etcd error 100 (key not found),
\* or a transport error when etcd cannot be reached
Get(path, reach) ==
    IF ~reach THEN [err |-> "transport"]
    ELSE IF path \in DOMAIN store /\ store[path] # NoNode
        THEN [err |-> "nil", dir |-> FALSE]
    ELSE IF path \in dirs THEN [err |-> "nil", dir |-> TRUE]
    ELSE [err |-> "notfound"]

\* backend.Records(name, exact): the services at or, unless exact, below a name
Records(name, exact, reach) ==
    LET path == Path(name)
        r    == Get(path, reach)
    IN  IF r.err # "nil" THEN [err |-> r.err, services |-> <<>>]
        ELSE IF ~r.dir THEN [err |-> "nil", services |-> <<ServOf(path)>>]
        ELSE IF exact THEN [err |-> "nil", services |-> <<>>]
        ELSE [err |-> "nil", services |-> loopNodes(path)]

\* backend.ReverseRecord(name): the single leaf of a reverse name
ReverseRecord(name, reach) ==
    LET path == Path(name)
        r    == Get(path, reach)
    IN  IF r.err # "nil" THEN [err |-> r.err]
        ELSE IF r.dir THEN [err |-> "directory"]
        ELSE [err |-> "nil", serv |-> ServOf(path)]

(***************************************************************************)
(* Resource records.                                                       *)
(***************************************************************************)
RR(name, rrtype, ttl, data) ==
    [name |-> name, rrtype |-> rrtype, ttl |-> ttl, data |-> data]

NewA(serv, name, ip) == RR(name, "A", serv.Ttl, ip)
NewAAAA(serv, name, ip) == RR(name, "AAAA", serv.Ttl, ip)
NewCNAME(serv, name, target) == RR(name, "CNAME", serv.Ttl, target)
NewTXT(serv, name) == RR(name, "TXT", serv.Ttl, serv.Text)
NewPTR(serv, name, ttl) == RR(name, "PTR", ttl, Fqdn(serv.Host))
NewNS(serv, name, target) == RR(name, "NS", serv.Ttl, target)
NewSRV(serv, name, weight) ==
    RR(name, "SRV", serv.Ttl,
       [priority |-> serv.Priority, weight |-> weight, port |-> serv.Port,
        target |-> Fqdn(serv.Host)])

\* NewSOA: the SOA of the zone, with the default TTL
NewSOA ==
    RR(Domain, "SOA", CfgTtl,
       [ns |-> <<"ns", Dot, "dns", Dot>> \o Domain, minttl |-> CfgMinTtl])

\* NewSOA of package main names the primary ns1.dns.<domain>
NewSOAMain ==
    RR(Domain, "SOA", CfgTtl,
       [ns |-> <<"ns1", Dot, "dns", Dot>> \o Domain, minttl |-> CfgMinTtl])

\* r.Header().Ttl = ttl
SetTtl(r, ttl) == [r EXCEPT !.ttl = ttl]

\* config.RoundRobin
CfgRoundRobin == TRUE

\* the permutations of 1..n
Perms(n) == {f \in [1..n -> 1..n] : \A i, j \in 1..n : i # j => f[i] # f[j]}

\* the number of inversions of a permutation decides its parity
Inversions(f, n) ==
    Cardinality({p \in (1..n) \X (1..n) : p[1] < p[2] /\ f[p[1]] > f[p[2]]})

\* The orders RoundRobin can leave rrs in.  A set of two is swapped or not;
\* a longer one goes through l, 2l, 3l or 4l swaps of two different places,
\* which reaches every permutation whose parity is that of the number of
\* swaps.  More than one CNAME: untouched.
RoundRobin(rrs) ==
    LET l      == Len(rrs)
        cnames == Cardinality({i \in 1..l : rrs[i].rrtype = "CNAME"})
    IN  IF ~CfgRoundRobin \/ cnames > 1 \/ l < 2 THEN {rrs}
        ELSE IF l = 2 THEN {rrs, <<rrs[2], rrs[1]>>}
        ELSE {[i \in 1..l |-> rrs[f[i]]] :
                 f \in {g \in Perms(l) :
                           l % 2 = 1 \/ Inversions(g, l) % 2 = 0}}

\* isDuplicateCNAME that finds no duplicate
isDuplicateCNAME_mutant(r, records) == FALSE

\* isDuplicateCNAME: the target of r is already the target of a CNAME in records
isDuplicateCNAME(r, records) ==
    \E i \in 1..Len(records) :
        records[i].rrtype = "CNAME" /\ records[i].data = r.data

\* the outcome of a record function: records, the error and, for the
\* properties, the errors met on the way
Outcome(records, err, ev) == [records |-> records, err |-> err, ev |-> ev]

RECURSIVE AddressRecords(_, _, _, _, _)
RECURSIVE AddressServices(_, _, _, _, _, _)

\* The loop of AddressRecords over the services of one name; records are
\* the records gathered so far.  The result is the set of outcomes, one for
\* each order RoundRobin may have produced further down.
AddressServices(qname, qtype, services, previousRecords, reach, records) ==
    IF services = <<>> THEN {Outcome(records, "nil", {})}
    ELSE
      LET serv == Head(services)
          rest == Tail(services)
      IN
        IF ~IsIP(serv.Host) THEN
            LET newRecord == NewCNAME(serv, qname, Fqdn(serv.Host))
            IN  IF Len(previousRecords) > 7
                    THEN {Outcome(<<>>, "limit", {"limit"})}
                ELSE IF isDuplicateCNAME(newRecord, previousRecords)
                    THEN {Outcome(<<>>, "loop", {"loop"})}
                ELSE UNION {
                    IF nxt.err # "nil"
                        THEN {Outcome(Append(records, newRecord), "incomplete",
                                      nxt.ev)}
                        ELSE {[o EXCEPT !.ev = @ \cup nxt.ev] :
                                o \in AddressServices(qname, qtype, rest,
                                        previousRecords, reach,
                                        Append(records, newRecord) \o nxt.records)}
                    : nxt \in AddressRecords(Fqdn(serv.Host), qtype,
                                  ToLower(Fqdn(serv.Host)),
                                  Append(previousRecords, newRecord), reach)}
        ELSE IF IsIP4(serv.Host) /\ qtype = "A" THEN
            AddressServices(qname, qtype, rest, previousRecords, reach,
                            Append(records, NewA(serv, qname, serv.Host)))
        ELSE IF ~IsIP4(serv.Host) /\ qtype = "AAAA" THEN
            AddressServices(qname, qtype, rest, previousRecords, reach,
                            Append(records, NewAAAA(serv, qname, serv.Host)))
        ELSE AddressServices(qname, qtype, rest, previousRecords, reach, records)

\* AddressRecords of package server: A or AAAA records of a name, following
\* CNAMEs
AddressRecords(qname, qtype, name, previousRecords, reach) ==
    LET r == Records(name, FALSE, reach)
    IN  IF r.err # "nil" THEN {Outcome(<<>>, r.err, {r.err})}
        ELSE UNION {
            IF o.err = "nil"
                THEN {[o EXCEPT !.records = p] : p \in RoundRobin(o.records)}
                ELSE {o}
            : o \in AddressServices(qname, qtype, r.services, previousRecords,
                                    reach, <<>>)}

(***************************************************************************)
(* Lookup: a query of the server's own to the upstream nameservers.  What  *)
(* the upstreams do is not decided by the program: the exchange fails      *)
(* (transport error on every try, or an rcode other than success), or it   *)
(* brings an answer section, empty or with one address record.  The TTLs   *)
(* of the answer are reset to the response cache TTL.                      *)
(***************************************************************************)
UpstreamAnswers(n, t) ==
    {<<>>} \cup
    (IF t = "A" THEN {<<RR(n, "A", CfgRCacheTtl, IPv4)>>}
     ELSE IF t = "AAAA" THEN {<<RR(n, "AAAA", CfgRCacheTtl, IPv6)>>}
     ELSE {})

Lookup(n, t, nameservers) ==
    IF nameservers = 0 THEN {[err |-> TRUE, answer |-> <<>>]}
    ELSE {[err |-> TRUE, answer |-> <<>>]}
             \cup {[err |-> FALSE, answer |-> a] : a \in UpstreamAnswers(n, t)}

\* records of the answer that are no CNAMEs
NoCNAME(rrs) == SelectSeq(rrs, LAMBDA r : r.rrtype # "CNAME")

\* the weight a service counts for: 100 when it has none
WeightOf(serv) == IF serv.Weight # 0 THEN serv.Weight ELSE 100

RECURSIVE SumWeights(_, _)
\* w[priority]: the sum of the weights of the services of one priority
SumWeights(services, priority) ==
    IF services = <<>> THEN 0
    ELSE (IF Head(services).Priority = priority THEN WeightOf(Head(services))
          ELSE 0) + SumWeights(Tail(services), priority)

(***************************************************************************)
(* float64 arithmetic, as far as SRVRecords needs it.  A number is a      *)
(* binary numeral, most significant bit first, with a count of the bits   *)
(* that stand behind the point; the result of a division and of a         *)
(* multiplication is rounded to the 53 bits of a float64 significand,     *)
(* ties to even.  The long division and the multiplication work on limbs  *)
(* of 10 bits.                                                             *)
(***************************************************************************)
\* the bits of the significand of a float64
Mantissa == 53

RECURSIVE IntOf(_)
\* the number a short numeral stands for
IntOf(b) ==
    IF b = <<>> THEN 0 ELSE 2 * IntOf(SubSeq(b, 1, Len(b) - 1)) + b[Len(b)]

\* the numeral without its leading zeros
Strip(b) ==
    IF \A i \in 1..Len(b) : b[i] = 0 THEN <<>>
    ELSE LET k == CHOOSE i \in 1..Len(b) :
                      b[i] = 1 /\ \A j \in 1..(i - 1) : b[j] = 0
         IN  SubSeq(b, k, Len(b))

\* the numeral of the next number
Incr(b) ==
    IF \A i \in 1..Len(b) : b[i] = 1 THEN <<1>> \o [i \in 1..Len(b) |-> 0]
    ELSE LET k == CHOOSE i \in 1..Len(b) :
                      b[i] = 0 /\ \A j \in (i + 1)..Len(b) : b[j] = 1
         IN  [i \in 1..Len(b) |-> IF i < k THEN b[i] ELSE IF i = k THEN 1 ELSE 0]

\* round a numeral to Mantissa bits, ties to even; sticky: the number has
\* more behind the bits of b
RoundBits(b, frac, sticky) ==
    IF Len(b) <= Mantissa THEN [bits |-> b, frac |-> frac]
    ELSE LET m    == SubSeq(b, 1, Mantissa)
             rest == sticky \/ \E i \in (Mantissa + 2)..Len(b) : b[i] = 1
             up   == b[Mantissa + 1] = 1 /\ (rest \/ m[Mantissa] = 1)
         IN  [bits |-> IF up THEN Incr(m) ELSE m,
              frac |-> frac - (Len(b) - Mantissa)]

\* the bits of a sequence of limbs
LimbBits(limbs) ==
    [i \in 1..(10 * Len(limbs)) |->
        (limbs[((i - 1) \div 10) + 1] \div (2 ^ (9 - ((i - 1) % 10)))) % 2]

\* the limbs of a numeral
BitLimbs(b) ==
    LET p == [i \in 1..((10 - (Len(b) % 10)) % 10) |-> 0] \o b
    IN  [j \in 1..(Len(p) \div 10) |->
            IntOf(SubSeq(p, 10 * (j - 1) + 1, 10 * j))]

RECURSIVE DivLimbs(_, _, _)
\* long division of a sequence of limbs by d: the quotient and the remainder
DivLimbs(dividend, d, r) ==
    IF dividend = <<>> THEN [quot |-> <<>>, r |-> r]
    ELSE LET t    == (1024 * r) + Head(dividend)
             rest == DivLimbs(Tail(dividend), d, t % d)
         IN  [quot |-> <<t \div d>> \o rest.quot, r |-> rest.r]

\* float64(n) / float64(d) for integers 0 < n < 1024 and d > 0
FloatDiv(n, d) ==
    LET limbs == ((2 * Mantissa) \div 10) + 1
        x     == DivLimbs(<<n>> \o [i \in 1..limbs |-> 0], d, 0)
    IN  RoundBits(Strip(LimbBits(x.quot)), 10 * limbs, x.r # 0)

RECURSIVE MulLimbs(_, _, _)
\* the limbs of l times w, for an integer w
MulLimbs(l, w, carry) ==
    IF l = <<>> THEN <<carry \div 1024, carry % 1024>>
    ELSE LET t == (l[Len(l)] * w) + carry
         IN  Append(MulLimbs(SubSeq(l, 1, Len(l) - 1), w, t \div 1024),
                    t % 1024)

\* x * float64(w) for an integer w > 0
FloatMul(x, w) ==
    RoundBits(Strip(LimbBits(MulLimbs(BitLimbs(x.bits), w, 0))), x.frac, FALSE)

\* math.Floor(x), for x that is no more than a few hundred
Floor(x) ==
    IF Len(x.bits) <= x.frac THEN 0
    ELSE IntOf(SubSeq(x.bits, 1, Len(x.bits) - x.frac))

\* SRVWeight that hands out the weight of the service as it is
SRVWeight_mutant(serv, services) == WeightOf(serv) % 65536

\* uint16(math.Floor(100.0 / float64(w[priority]) * float64(weight)))
SRVWeight(serv, services) ==
    Floor(FloatMul(FloatDiv(100, SumWeights(services, serv.Priority)),
                   WeightOf(serv))) % 65536

SRVOutcome(records, extra, err, ev) ==
    [records |-> records, extra |-> extra, err |-> err, ev |-> ev]

RECURSIVE SRVServices(_, _, _, _, _, _, _)
\* the second loop of SRVRecords; lookup is the set of targets seen
SRVServices(qname, all, services, nameservers, lookup, records, extra) ==
    IF services = <<>> THEN {SRVOutcome(records, extra, "nil", {})}
    ELSE
      LET serv   == Head(services)
          rest   == Tail(services)
          weight == SRVWeight(serv, all)
      IN
        IF ~IsIP(serv.Host) THEN
            LET srv    == NewSRV(serv, qname, weight)
                target == srv.data.target
            IN  IF target \notin lookup /\ ~IsSubDomain(Domain, target)
                THEN UNION {
                        SRVServices(qname, all, rest, nameservers,
                            lookup \cup {target}, Append(records, srv),
                            extra \o (IF m1.err THEN <<>> ELSE m1.answer)
                                  \o (IF m2.err THEN <<>> ELSE NoCNAME(m2.answer)))
                        : m1 \in Lookup(target, "A", nameservers),
                          m2 \in Lookup(target, "AAAA", nameservers)}
                ELSE SRVServices(qname, all, rest, nameservers,
                         lookup \cup {target}, Append(records, srv), extra)
        ELSE
            LET host == DomainOf(serv.key)
                srv  == NewSRV([serv EXCEPT !.Host = host], qname, weight)
                glue == IF IsIP4(serv.Host) THEN NewA(serv, host, serv.Host)
                        ELSE NewAAAA(serv, host, serv.Host)
            IN  SRVServices(qname, all, rest, nameservers, lookup,
                            Append(records, srv), Append(extra, glue))

\* SRVRecords returns SRV records from etcd, with the addresses of the
\* targets in extra
SRVRecords(qname, name, nameservers, reach) ==
    LET r == Records(name, FALSE, reach)
    IN  IF r.err # "nil" THEN {SRVOutcome(<<>>, <<>>, r.err, {r.err})}
        ELSE SRVServices(qname, r.services, r.services, nameservers, {},
                         <<>>, <<>>)

\* CNAMERecords: the CNAME of exactly this name
CNAMERecords(qname, name, reach) ==
    LET r == Records(name, TRUE, reach)
    IN  IF r.err # "nil" THEN Outcome(<<>>, r.err, {r.err})
        ELSE IF Len(r.services) > 0 /\ ~IsIP(r.services[1].Host)
            THEN Outcome(<<NewCNAME(r.services[1], qname,
                                    Fqdn(r.services[1].Host))>>, "nil", {})
        ELSE Outcome(<<>>, "nil", {})

RECURSIVE TXTServices(_, _)
TXTServices(qname, services) ==
    IF services = <<>> THEN <<>>
    ELSE (IF Head(services).Text = <<>> THEN <<>>
          ELSE <<NewTXT(Head(services), qname)>>)
             \o TXTServices(qname, Tail(services))

\* TXTRecords: one TXT record for each service with a text
TXTRecords(qname, name, reach) ==
    LET r == Records(name, FALSE, reach)
    IN  IF r.err # "nil" THEN Outcome(<<>>, r.err, {r.err})
        ELSE Outcome(TXTServices(qname, r.services), "nil", {})

\* config.dnsDomain: where the name servers of the zone are kept
dnsDomain == <<"ns", Dot, "dns", Dot>> \o Domain

RECURSIVE NSServices(_, _, _, _)
NSServices(qname, services, records, extra) ==
    IF services = <<>> THEN SRVOutcome(records, extra, "nil", {})
    ELSE
      LET serv == Head(services)
          host == DomainOf(serv.key)
      IN  IF ~IsIP(serv.Host)
              THEN SRVOutcome(<<>>, <<>>, "nsnotip", {"nsnotip"})
          ELSE NSServices(qname, Tail(services),
                   Append(records, NewNS(serv, qname, host)),
                   Append(extra, IF IsIP4(serv.Host)
                                 THEN NewA(serv, host, serv.Host)
                                 ELSE NewAAAA(serv, host, serv.Host)))

\* NSRecords returns NS records from etcd
NSRecords(qname, name, reach) ==
    LET r == Records(name, FALSE, reach)
    IN  IF r.err # "nil" THEN SRVOutcome(<<>>, <<>>, r.err, {r.err})
        ELSE NSServices(qname, r.services, <<>>, <<>>)

\* PTRRecords of package server: the PTR record of a reverse name
PTRRecords(qname, reach) ==
    LET r == ReverseRecord(ToLower(qname), reach)
    IN  IF r.err # "nil" THEN Outcome(<<>>, r.err, {r.err})
        ELSE Outcome(<<NewPTR(r.serv, qname, r.serv.Ttl)>>, "nil", {})

(***************************************************************************)
(* Messages.                                                               *)
(***************************************************************************)
\* a question: name, type, the DO bit of its OPT record and the message id
Question(name, qtype, do, id) ==
    [name |-> name, qtype |-> qtype, do |-> do, id |-> id]

\* dns.Msg, as far as the handlers fill it in
Msg(id, rcode, aa, answer, ns, extra) ==
    [id |-> id, rcode |-> rcode, aa |-> aa, answer |-> answer, ns |-> ns,
     extra |-> extra]

\* m.SetReply(req) and the flags ServeDNS sets at its start
NewReply(req) == Msg(req.id, "NOERROR", TRUE, <<>>, <<>>, <<>>)

\* NameError that leaves the rcode alone
NameError_mutant(m) == [m EXCEPT !.ns = <<SetTtl(NewSOA, CfgMinTtl)>>]

\* NameError: NXDOMAIN with the SOA, at the minimum TTL, in the authority section
NameError(m) ==
    [m EXCEPT !.rcode = "NXDOMAIN", !.ns = <<SetTtl(NewSOA, CfgMinTtl)>>]

\* NoDataError that sets the rcode of a name error
NoDataError_mutant(m) ==
    [m EXCEPT !.rcode = "NXDOMAIN", !.ns = <<SetTtl(NewSOA, CfgMinTtl)>>]

\* NoDataError: NOERROR with the SOA, at the minimum TTL, in the authority section
NoDataError(m) ==
    [m EXCEPT !.rcode = "NOERROR", !.ns = <<SetTtl(NewSOA, CfgMinTtl)>>]

\* NameError of package main
NameErrorMain(m) ==
    [m EXCEPT !.rcode = "NXDOMAIN", !.ns = <<SetTtl(NewSOAMain, CfgMinTtl)>>]

\* config.PubKey != nil: the zone has a key, answers to DO queries are
\* accompanied by their denial records
CfgDNSSEC == TRUE

\* the NSEC3 records of the white lies; their names are hashes, told apart
\* here by what they deny
NSEC3(kind) == RR(<<kind>>, "NSEC3", CfgMinTtl, kind)

\* Denial adds the NSEC3 records to an NXDOMAIN and to a NODATA answer
Denial(m) ==
    IF m.rcode = "NXDOMAIN"
        THEN [m EXCEPT !.ns = @ \o <<NSEC3("qname"), NSEC3("closest-encloser"),
                                     NSEC3("wildcard")>>]
    ELSE IF m.rcode = "NOERROR" /\ Len(m.ns) = 1 /\ m.ns[1].rrtype = "SOA"
        THEN [m EXCEPT !.ns = Append(@, NSEC3("nodata"))]
    ELSE m

(***************************************************************************)
(* Forwarding.                                                             *)
(***************************************************************************)
RECURSIVE Redo(_, _, _, _, _)
\* The loop of ServeDNSForward from the label Redo on.  ok[i] tells whether
\* the i-th exchange of this request gets a reply; exchanges are the
\* indices of the nameservers asked so far.
Redo(nsid, try, n, ok, exchanges) ==
    LET ex == Append(exchanges, nsid)
    IN  IF ok[Len(ex)] THEN [exchanges |-> ex, err |-> FALSE]
        ELSE IF try < n THEN Redo((nsid + 1) % n, try + 1, n, ok, ex)
        ELSE [exchanges |-> ex, err |-> TRUE]

\* the reply of an upstream nameserver: not ours to decide, one of a few
UpstreamReplies(req) ==
    {Msg(req.id, "NOERROR", FALSE, a, <<>>, <<>>) :
        a \in UpstreamAnswers(req.name, req.qtype)}
    \cup {Msg(req.id, "NXDOMAIN", FALSE, <<>>, <<>>, <<>>)}

\* what a handler did: the replies it wrote, in order, and the nameservers
\* it exchanged the request with
Done(replies, exchanges) == [replies |-> replies, exchanges |-> exchanges]

\* ServeDNSForward that gives up in silence when every exchange has failed
ServeDNSForward_mutant(req, n, ok, r) ==
    IF n = 0
        THEN Done(<<Msg(req.id, "SERVFAIL", FALSE, <<>>, <<>>, <<>>)>>, <<>>)
    ELSE LET x == Redo(req.id % n, 0, n, ok, <<>>)
         IN  IF ~x.err THEN Done(<<r>>, x.exchanges)
             ELSE Done(<<>>, x.exchanges)

\* ServeDNSForward forwards a request to a nameserver and returns the
\* response; r is the reply the upstream gives when an exchange succeeds
ServeDNSForward(req, n, ok, r) ==
    IF n = 0
        THEN Done(<<Msg(req.id, "SERVFAIL", FALSE, <<>>, <<>>, <<>>)>>, <<>>)
    ELSE LET x == Redo(req.id % n, 0, n, ok, <<>>)
         IN  IF ~x.err THEN Done(<<r>>, x.exchanges)
             ELSE Done(<<Msg(req.id, "SERVFAIL", FALSE, <<>>, <<>>, <<>>)>>,
                       x.exchanges)

\* PTRRecords of package main: no wildcards, no directories, the TTL of the
\* node or the default
PTRRecordsMain(qname, reach) ==
    LET name == ToLower(qname)
        r    == Get(Path(name), reach)
    IN  IF \E i \in 1..Len(SplitDomainName(name)) :
               SplitDomainName(name)[i] = <<"*">>
            THEN Outcome(<<>>, "wildcard", {"wildcard"})
        ELSE IF r.err # "nil" THEN Outcome(<<>>, r.err, {r.err})
        ELSE IF r.dir THEN Outcome(<<>>, "directory", {"directory"})
        ELSE LET node == store[Path(name)]
                 ttl  == IF NodeTTL(node) = 0 THEN CfgTtl ELSE NodeTTL(node)
             IN  Outcome(<<NewPTR(node.value, qname, ttl)>>, "nil", {})

\* ServeDNSReverse is the handler for the reverse zones: ptr is the outcome
\* of PTRRecords.  The reply with the PTR record is written when there is
\* no error, and then the request goes to the forwarder.
ServeDNSReverse(req, ptr, n, ok, r) ==
    LET m   == Msg(req.id, "NOERROR", FALSE, ptr.records, <<>>, <<>>)
        fwd == ServeDNSForward(req, n, ok, r)
    IN  IF ptr.err = "nil"
            THEN Done(<<m>> \o fwd.replies, fwd.exchanges)
            ELSE fwd

(***************************************************************************)
(* The cache: an LRU list l (front first), the index m from key to         *)
(* element, and the size, an unsigned integer that counts RRs.             *)
(***************************************************************************)
\* the width of the size counter: uint arithmetic is modulo UintMod
UintMod == 8

\* an element of the cache; msg is what the cache keeps of the message
Elem(key, expiration, msg) ==
    [key |-> key, expiration |-> expiration, msg |-> msg]

\* cache.New(capacity, ttl)
NewCache(capacity) ==
    [l |-> <<>>, m |-> <<>>, size |-> 0, capacity |-> capacity]

\* the number of RRs an element counts for: len(answer) + len(extra)
ElemSize(e) == Len(e.msg.answer) + Len(e.msg.extra)

\* l.Remove(e)
ListRemove(l, e) == SelectSeq(l, LAMBDA x : x # e)

\* delete(m, key)
MapDelete(m, key) == [k \in DOMAIN m \ {key} |-> m[k]]

RECURSIVE shrink_mutant(_)
\* shrink that takes the last element off the list and leaves it in the map
shrink_mutant(c) ==
    IF c.size > c.capacity /\ c.l # <<>>
        THEN LET v == c.l[Len(c.l)]
             IN  shrink_mutant([c EXCEPT !.l = SubSeq(c.l, 1, Len(c.l) - 1),
                                         !.size = (c.size - ElemSize(v)) % UintMod])
        ELSE c

RECURSIVE shrink(_)
\* shrink removes elements from the back while the size exceeds the capacity
shrink(c) ==
    IF c.size > c.capacity /\ c.l # <<>>
        THEN LET v == c.l[Len(c.l)]
             IN  shrink([c EXCEPT !.l = SubSeq(c.l, 1, Len(c.l) - 1),
                                  !.m = MapDelete(c.m, v.key),
                                  !.size = (c.size - ElemSize(v)) % UintMod])
        ELSE c

\* Remove removes the element under key s from the cache
Remove(c, s) ==
    IF s \notin DOMAIN c.m THEN c
    ELSE shrink([c EXCEPT !.size = (c.size - 1) % UintMod,
                          !.l = ListRemove(c.l, c.m[s]),
                          !.m = MapDelete(c.m, s)])

\* InsertMessage inserts a message in the cache, for ttl seconds
InsertMessage(c, s, msg) ==
    IF c.capacity = 0 THEN c
    ELSE LET e  == Elem(s, now + CfgRCacheTtl, msg)
             c1 == IF s \notin DOMAIN c.m
                       THEN [c EXCEPT !.l = <<e>> \o c.l,
                                      !.m = (s :> e) @@ c.m]
                       ELSE c
         IN  shrink([c1 EXCEPT !.size = (c.size + ElemSize(e)) % UintMod])

\* Search that hands out the records of the element themselves
Search_mutant(c, s) ==
    IF c.capacity = 0 \/ s \notin DOMAIN c.m
        THEN [hit |-> FALSE, cache |-> c]
    ELSE [hit |-> TRUE, msg |-> c.m[s].msg, exp |-> c.m[s].expiration,
          copied |-> FALSE,
          cache |-> [c EXCEPT !.l = <<c.m[s]>> \o ListRemove(c.l, c.m[s])]]

\* Search: the element under key s, moved to the front of the list.  What
\* is returned are new slices of copies of the records (dns.Copy), which is
\* what copied says.
Search(c, s) ==
    IF c.capacity = 0 \/ s \notin DOMAIN c.m
        THEN [hit |-> FALSE, cache |-> c]
    ELSE [hit |-> TRUE, msg |-> c.m[s].msg, exp |-> c.m[s].expiration,
          copied |-> TRUE,
          cache |-> [c EXCEPT !.l = <<c.m[s]>> \o ListRemove(c.l, c.m[s])]]

\* The cache after the caller of Search has changed what it was given into
\* msg: the element under s is changed with it unless it was given copies.
Mutated(sr, s, msg) ==
    IF sr.copied THEN sr.cache
    ELSE LET e == [sr.cache.m[s] EXCEPT !.msg = msg]
         IN  [sr.cache EXCEPT
                 !.m = [@ EXCEPT ![s] = e],
                 !.l = [i \in 1..Len(@) |->
                           IF @[i] = sr.cache.m[s] THEN e ELSE @[i]]]

\* QuestionKey: name, type and the DO bit of a question
QuestionKey(q) == <<q.name, q.qtype, q.do>>

(***************************************************************************)
(* ServeDNS of package server.                                             *)
(***************************************************************************)
\* the target of the first CNAME in records that lies outside the domain,
\* <<>> when there is none
ExternalTarget(records) ==
    LET ext == SelectSeq(records, LAMBDA r : r.rrtype = "CNAME"
                                             /\ ~IsSubDomain(Domain, r.data))
    IN  IF ext = <<>> THEN <<>> ELSE ext[1].data

\* what the handler has when it returns: the message and, for the
\* properties, the errors met on the way
Ret(m, err, ev) == [m |-> m, err |-> err, ev |-> ev]

\* the end of ServeDNS: an empty answer section is a NODATA response
NoData(m) ==
    IF Len(m.answer) = 0 THEN [m EXCEPT !.ns = <<SetTtl(NewSOA, CfgMinTtl)>>]
    ELSE m

\* ServeAddress that answers with the CNAMEs it has when the chain is
\* incomplete
ServeAddress_mutant(m, q, name, n, reach) ==
    UNION {
        IF o.err = "notfound" THEN {Ret(NameError(m), o.err, o.ev)}
        ELSE IF o.err = "incomplete" THEN
            IF Len(o.records) = 0 THEN {Ret(NameError(m), o.err, o.ev)}
            ELSE IF ExternalTarget(o.records) = <<>>
                THEN {Ret([m EXCEPT !.answer = o.records], o.err, o.ev)}
            ELSE {IF m1.err
                      THEN Ret([m EXCEPT !.answer = o.records], o.err,
                               o.ev \cup {"lookup failed"})
                      ELSE Ret(NoData([m EXCEPT !.answer = o.records \o m1.answer]),
                               o.err, o.ev \cup {"lookup"})
                  : m1 \in Lookup(ExternalTarget(o.records), q.qtype, n)}
        ELSE {Ret(NoData([m EXCEPT !.answer = o.records]), o.err, o.ev)}
        : o \in AddressRecords(q.name, q.qtype, name, <<>>, reach)}

\* the case of A and AAAA in the switch of ServeDNS
ServeAddress(m, q, name, n, reach) ==
    UNION {
        IF o.err = "notfound" THEN {Ret(NameError(m), o.err, o.ev)}
        ELSE IF o.err = "incomplete" THEN
            IF Len(o.records) = 0 THEN {Ret(NameError(m), o.err, o.ev)}
            ELSE IF ExternalTarget(o.records) = <<>>
                THEN {Ret(NoDataError(m), o.err, o.ev)}
            ELSE {IF m1.err
                      THEN Ret(NoDataError(m), o.err, o.ev \cup {"lookup failed"})
                      ELSE Ret(NoData([m EXCEPT !.answer = o.records \o m1.answer]),
                               o.err, o.ev \cup {"lookup"})
                  : m1 \in Lookup(ExternalTarget(o.records), q.qtype, n)}
        ELSE {Ret(NoData([m EXCEPT !.answer = o.records]), o.err, o.ev)}
        : o \in AddressRecords(q.name, q.qtype, name, <<>>, reach)}

\* ServeDNS from the check of the apex to its end, without the deferred
\* function: the messages it may return with
ServeAuth(q, n, reach) ==
    LET m    == NewReply(q)
        name == ToLower(q.name)
    IN  IF name = Domain /\ q.qtype = "SOA"
            THEN {Ret([m EXCEPT !.answer = <<NewSOA>>], "unasked", {})}
        ELSE IF name = Domain /\ q.qtype = "DNSKEY" /\ CfgDNSSEC
            THEN {Ret([m EXCEPT !.answer = <<RR(Domain, "DNSKEY", CfgTtl, "key")>>], "unasked", {})}
        ELSE IF q.qtype = "NS" THEN
            IF name # Domain THEN {Ret(NoData(m), "unasked", {})}
            ELSE LET o == NSRecords(q.name, dnsDomain, reach)
                 IN  IF o.err = "notfound" THEN {Ret(NameError(m), o.err, o.ev)}
                     ELSE {Ret(NoData([m EXCEPT !.answer = o.records,
                                                !.extra = o.extra]), o.err, o.ev)}
        ELSE IF q.qtype \in {"A", "AAAA"} THEN ServeAddress(m, q, name, n, reach)
        ELSE IF q.qtype = "TXT" THEN
            LET o == TXTRecords(q.name, name, reach)
            IN  IF o.err = "notfound" THEN {Ret(NameError(m), o.err, o.ev)}
                ELSE {Ret(NoData([m EXCEPT !.answer = o.records]), o.err, o.ev)}
        ELSE IF q.qtype = "CNAME" THEN
            LET o == CNAMERecords(q.name, name, reach)
            IN  IF o.err = "notfound" THEN {Ret(NameError(m), o.err, o.ev)}
                ELSE {Ret(NoData([m EXCEPT !.answer = o.records]), o.err, o.ev)}
        ELSE {IF o.err = "notfound" THEN Ret(NameError(m), o.err, o.ev)
              ELSE IF q.qtype \in {"SRV", "ANY"}
                  THEN Ret(NoData([m EXCEPT !.answer = o.records,
                                            !.extra = o.extra]), o.err, o.ev)
              ELSE Ret(NoData(m), o.err, o.ev)
              : o \in SRVRecords(q.name, name, n, reach)}

RECURSIVE MinTtlOf(_, _)
\* the smallest TTL of rrs, starting from minttl
MinTtlOf(rrs, minttl) ==
    IF rrs = <<>> THEN minttl
    ELSE MinTtlOf(Tail(rrs), IF Head(rrs).ttl < minttl THEN Head(rrs).ttl
                             ELSE minttl)

\* "Set TTL to the minimum of the RRset" in the deferred function
RewriteTtl(answer) ==
    IF Len(answer) > 1
        THEN [i \in 1..Len(answer) |-> SetTtl(answer[i], MinTtlOf(answer, CfgTtl))]
        ELSE answer

\* the deferred function of ServeDNS after the rewrite of the TTLs and the
\* insert into the cache: denial for DO queries
Signed(m, q) == IF q.do /\ CfgDNSSEC THEN Denial(m) ELSE m

(***************************************************************************)
(* The state machine.  A request is served in one step; what the handler   *)
(* wrote stays in resp until the client has taken it.                      *)
(***************************************************************************)
\* the record of a served request: the replies written, in order, the
\* upstream exchanges made and, for the properties, what went on inside:
\* the path taken, whether the store could be reached, the answer section
\* before the TTLs were rewritten, the error of the record function and
\* the errors met below it
Served(handler, path, q, reach, done, pre, err, ev) ==
    [handler |-> handler, path |-> path, q |-> q, reach |-> reach,
     replies |-> done.replies, exchanges |-> done.exchanges, pre |-> pre,
     err |-> err, ev |-> ev]

Idle ==
    Served("none", "idle", Question(<<>>, "A", FALSE, 0), TRUE,
           Done(<<>>, <<>>), <<>>, "nil", {})

\* the outcomes of the exchanges of one request: ok[i] for the i-th
Oks == [1..(MaxNameservers + 1) -> BOOLEAN]

\* name is in a reverse zone and the question is for ServeDNSReverse
IsReverse(q, name) ==
    \/ q.qtype = "PTR" /\ HasSuffix(name, <<Dot, "in-addr", Dot, "arpa", Dot>>)
    \/ HasSuffix(name, <<Dot, "ip6", Dot, "arpa", Dot>>)

\* ServeDNS of package server for request req
ServeDNS(req) ==
    LET key  == QuestionKey(req)
        sr   == Search(rcache, key)
        name == ToLower(req.name)
        n    == config.Nameservers
    IN
    /\ resp.path = "idle"
    /\ UNCHANGED <<store, dirs, expired, now, config>>
    /\ IF req.qtype = "ANY" THEN
            /\ resp' = Served("server", "refused", req, TRUE,
                           Done(<<Msg(req.id, "REFUSED", FALSE, <<>>, <<>>, <<>>)>>,
                                <<>>), <<>>, "nil", {})
            /\ UNCHANGED rcache
       ELSE IF sr.hit /\ now < sr.exp THEN
            /\ \E a \in (IF req.qtype \in {"A", "AAAA"}
                          THEN RoundRobin(sr.msg.answer) ELSE {sr.msg.answer}) :
                  LET m1 == [sr.msg EXCEPT !.id = req.id, !.answer = a]
                  IN  /\ resp' = Served("server", "hit", req, TRUE,
                                     Done(<<m1>>, <<>>), sr.msg.answer, "nil", {})
                      /\ rcache' = Mutated(sr, key, m1)
       ELSE
            LET c == IF sr.hit THEN Remove(sr.cache, key) ELSE sr.cache
            IN  IF IsReverse(req, name) THEN
                    /\ rcache' = c
                    /\ \E reach \in BOOLEAN, ok \in Oks, r \in UpstreamReplies(req) :
                          LET ptr == PTRRecords(req.name, reach)
                          IN  resp' = Served("server", "reverse", req, reach,
                                          ServeDNSReverse(req, ptr, n, ok, r),
                                          <<>>, ptr.err, ptr.ev)
                ELSE IF ~HasSuffix(name, Domain) THEN
                    /\ rcache' = c
                    /\ \E ok \in Oks, r \in UpstreamReplies(req) :
                          resp' = Served("server", "forward", req, TRUE,
                                      ServeDNSForward(req, n, ok, r),
                                      <<>>, "nil", {})
                ELSE
                    \E reach \in BOOLEAN :
                      \E ret \in ServeAuth(req, n, reach) :
                        IF ret.m.rcode = "SERVFAIL" THEN
                            /\ rcache' = c
                            /\ resp' = Served("server", "auth", req, reach,
                                           Done(<<ret.m>>, <<>>), ret.m.answer,
                                           ret.err, ret.ev)
                        ELSE
                            LET m == [ret.m EXCEPT !.answer = RewriteTtl(@)]
                            IN  /\ rcache' = InsertMessage(c, key, m)
                                /\ resp' = Served("server", "auth", req, reach,
                                               Done(<<Signed(m, req)>>, <<>>),
                                               ret.m.answer, ret.err, ret.ev)

(***************************************************************************)
(* ServeDNS of package main, called ServeDNSMain.                          *)
(***************************************************************************)
\* the service of a single leaf as package main reads it: TTL computed,
\* key attached
ServOfMain(key) ==
    [store[key].value EXCEPT !.Ttl = calculateTtl(store[key], store[key].value)]
        @@ [key |-> key]

\* the address records of the services below a directory
AddressOfNodes(qname, qtype, services) ==
    LET pick == SelectSeq(services,
                    LAMBDA serv : \/ IsIP4(serv.Host) /\ qtype = "A"
                                  \/ IsIP(serv.Host) /\ ~IsIP4(serv.Host)
                                     /\ qtype = "AAAA")
    IN  [i \in 1..Len(pick) |->
            IF qtype = "A" THEN NewA(pick[i], qname, pick[i].Host)
            ELSE NewAAAA(pick[i], qname, pick[i].Host)]

RECURSIVE AddressRecordsMain(_, _, _, _, _)
\* AddressRecords of package main: a single leaf is followed when it is a
\* CNAME; below a directory only the addresses count
AddressRecordsMain(qname, qtype, name, previousRecords, reach) ==
    LET path == PathWildcard(name).path
        r    == Get(path, reach)
    IN  IF r.err # "nil" THEN {Outcome(<<>>, r.err, {r.err})}
        ELSE IF ~r.dir THEN
            LET serv      == ServOfMain(path)
                newRecord == NewCNAME(serv, qname, Fqdn(serv.Host))
            IN  IF ~IsIP(serv.Host) THEN
                    IF Len(previousRecords) > 7
                        THEN {Outcome(<<>>, "limit", {"limit"})}
                    ELSE IF isDuplicateCNAME(newRecord, previousRecords)
                        THEN {Outcome(<<>>, "loop", {"loop"})}
                    ELSE {IF nxt.err # "nil"
                              THEN Outcome(<<newRecord>>, "incomplete", nxt.ev)
                              ELSE Outcome(<<newRecord>> \o nxt.records, "nil",
                                           nxt.ev)
                          : nxt \in AddressRecordsMain(Fqdn(serv.Host), qtype,
                                        ToLower(Fqdn(serv.Host)),
                                        Append(previousRecords, newRecord), reach)}
                ELSE IF IsIP4(serv.Host) /\ qtype = "A"
                    THEN {Outcome(<<NewA(serv, qname, serv.Host)>>, "nil", {})}
                ELSE IF ~IsIP4(serv.Host) /\ qtype = "AAAA"
                    THEN {Outcome(<<NewAAAA(serv, qname, serv.Host)>>, "nil", {})}
                ELSE {Outcome(<<>>, "nil", {})}
        ELSE {Outcome(p, "nil", {}) :
                p \in RoundRobin(AddressOfNodes(qname, qtype,
                                                loopNodesMain(name)))}

\* SRVRecords of package main: a single leaf has weight 100, the leaves of
\* a directory share the weight like those of package server
SRVRecordsMain(qname, name, nameservers, reach) ==
    LET path == PathWildcard(name).path
        r    == Get(path, reach)
    IN  IF r.err # "nil" THEN {SRVOutcome(<<>>, <<>>, r.err, {r.err})}
        ELSE IF ~r.dir THEN
            \* uint16(100) is the share of a service that is alone
            LET serv == [ServOf(path) EXCEPT !.Weight = 0]
            IN  SRVServices(qname, <<serv>>, <<serv>>, nameservers, {}, <<>>,
                            <<>>)
        ELSE SRVServices(qname, loopNodesMain(name), loopNodesMain(name),
                         nameservers, {}, <<>>, <<>>)

\* CNAMERecords of package main
CNAMERecordsMain(qname, name, reach) ==
    LET path == Path(name)
        r    == Get(path, reach)
    IN  IF r.err # "nil" THEN Outcome(<<>>, r.err, {r.err})
        ELSE IF ~r.dir /\ ~IsIP(store[path].value.Host)
            THEN Outcome(<<NewCNAME(ServOfMain(path), qname,
                                    Fqdn(store[path].value.Host))>>, "nil", {})
        ELSE Outcome(<<>>, "nil", {})

\* client.GetCluster(): the machines of the etcd cluster, one here
Cluster == <<IPv4>>

\* ns<i>.dns.<domain>
NameNs(i) ==
    IF i = 1 THEN <<"ns1", Dot>> \o NameDns ELSE <<"ns", Dot>> \o NameDns

\* the records the handler makes up from the machines of the cluster
ClusterRecords(q, name) ==
    LET one(i) ==
            IF name = Domain /\ q.qtype = "NS"
                THEN <<NewNS([Ttl |-> CfgTtl], Domain, NameNs(i))>>
            ELSE IF IsIP4(Cluster[i]) /\ q.qtype = "A" /\ q.name = NameNs(i)
                THEN <<NewA([Ttl |-> CfgTtl], q.name, Cluster[i])>>
            ELSE IF ~IsIP4(Cluster[i]) /\ q.qtype = "AAAA" /\ q.name = NameNs(i)
                THEN <<NewAAAA([Ttl |-> CfgTtl], q.name, Cluster[i])>>
            ELSE <<>>
    IN  one(1)

\* the end of ServeDNSMain: an empty answer section is a NODATA response
NoDataMain(m) ==
    IF Len(m.answer) = 0 THEN [m EXCEPT !.ns = <<SetTtl(NewSOAMain, CfgMinTtl)>>]
    ELSE m

\* the case of A and AAAA in the switch of ServeDNSMain
ServeAddressMain(m, q, name, n, reach) ==
    UNION {
        IF o.err = "notfound" THEN {Ret(NameErrorMain(m), o.err, o.ev)}
        ELSE IF o.err = "incomplete" THEN
            IF Len(o.records) = 0 THEN {Ret(NameErrorMain(m), o.err, o.ev)}
            ELSE IF ExternalTarget(o.records) = <<>>
                THEN {Ret(NameErrorMain(m), o.err, o.ev)}
            ELSE {IF m1.err
                      THEN Ret(NameErrorMain(m), o.err,
                               o.ev \cup {"lookup failed"})
                      ELSE Ret(NoDataMain([m EXCEPT
                                              !.answer = o.records \o m1.answer]),
                               o.err, o.ev \cup {"lookup"})
                  : m1 \in Lookup(ExternalTarget(o.records), q.qtype, n)}
        ELSE {Ret(NoDataMain([m EXCEPT !.answer = o.records]), o.err, o.ev)}
        : o \in AddressRecordsMain(q.name, q.qtype, name, <<>>, reach)}

\* the switch of ServeDNSMain and what follows it
ServeSwitchMain(m, q, name, n, reach) ==
    IF q.qtype \in {"A", "AAAA"} THEN ServeAddressMain(m, q, name, n, reach)
    ELSE IF q.qtype = "CNAME" THEN
        LET o == CNAMERecordsMain(q.name, name, reach)
        IN  IF o.err = "notfound" THEN {Ret(NameErrorMain(m), o.err, o.ev)}
            ELSE {Ret(NoDataMain([m EXCEPT !.answer = o.records]), o.err, o.ev)}
    ELSE {IF o.err = "notfound" THEN Ret(NameErrorMain(m), o.err, o.ev)
          ELSE IF q.qtype \in {"SRV", "ANY"}
              THEN Ret(NoDataMain([m EXCEPT !.answer = o.records,
                                            !.extra = o.extra]), o.err, o.ev)
          ELSE Ret(NoDataMain(m), o.err, o.ev)
          : o \in SRVRecordsMain(q.name, name, n, reach)}

\* the names the handler answers by itself: hijacked is <<>> when the
\* handler goes on to the cache and the store
HijackedMain(m, q, name) ==
    IF ~(HasSuffix(name, NameDns) \/ name = Domain) THEN <<>>
    ELSE IF name = NameDns THEN <<[m EXCEPT !.ns = <<NewSOAMain>>]>>
    ELSE IF q.qtype = "SOA" /\ name = Domain
        THEN <<[m EXCEPT !.answer = <<NewSOAMain>>]>>
    ELSE IF q.qtype = "DNSKEY" /\ name = Domain /\ CfgDNSSEC
        THEN <<[m EXCEPT !.answer = <<RR(Domain, "DNSKEY", CfgTtl, "key")>>]>>
    ELSE IF Len(ClusterRecords(q, name)) > 0
        THEN <<[m EXCEPT !.answer = ClusterRecords(q, name)]>>
    ELSE <<>>

\* QuestionKey of package main: name and type
QuestionKeyMain(q) == <<q.name, q.qtype>>

\* MsgDedup: returns the message with its first statement; the loops that
\* would drop the RRs seen before come after it and never run
MsgDedup(m) == m

\* ServeDNSMain, the handler of package main, for request req
ServeDNSMain(req) ==
    LET key  == QuestionKeyMain(req)
        name == ToLower(req.name)
        n    == config.Nameservers
        m0   == NewReply(req)
        hij  == HijackedMain(m0, req, name)
        sr   == Search(rcache, key)
        \* the deferred function: ret is what the handler returned with,
        \* c the cache at that time.  The answer and the extra section go
        \* into the cache; do, the DO bit of the request they were made for,
        \* is kept with them for the properties only.
        fin(path, reach, ret, c, cached) ==
            LET m == [MsgDedup(ret.m) EXCEPT !.answer = RewriteTtl(@)]
            IN  /\ rcache' = IF cached
                                 THEN Mutated([sr EXCEPT !.cache = c], key,
                                          [answer |-> m.answer,
                                           extra |-> m.extra,
                                           do |-> sr.msg.do])
                             ELSE InsertMessage(c, key,
                                      [answer |-> m.answer, extra |-> m.extra,
                                       do |-> req.do])
                /\ resp' = Served("main", path, req, reach,
                               Done(<<Signed(m, req)>>, <<>>), ret.m.answer,
                               ret.err, ret.ev)
    IN
    /\ resp.path = "idle"
    /\ UNCHANGED <<store, dirs, expired, now, config>>
    /\ IF IsReverse(req, name) THEN
            /\ UNCHANGED rcache
            /\ \E reach \in BOOLEAN, ok \in Oks, r \in UpstreamReplies(req) :
                  LET ptr == PTRRecordsMain(req.name, reach)
                  IN  resp' = Served("main", "reverse", req, reach,
                                  ServeDNSReverse(req, ptr, n, ok, r),
                                  <<>>, ptr.err, ptr.ev)
       ELSE IF ~HasSuffix(name, Domain) THEN
            /\ UNCHANGED rcache
            /\ \E ok \in Oks, r \in UpstreamReplies(req) :
                  resp' = Served("main", "forward", req, TRUE,
                              ServeDNSForward(req, n, ok, r), <<>>, "nil", {})
       ELSE IF hij # <<>> THEN
            fin("hijack", TRUE, Ret(hij[1], "unasked", {}), rcache, FALSE)
       ELSE IF sr.hit /\ Len(sr.msg.answer) > 0 /\ now < sr.exp THEN
            fin("hit", TRUE,
                Ret([m0 EXCEPT !.answer = sr.msg.answer, !.extra = sr.msg.extra],
                    "unasked", {}), sr.cache, TRUE)
       ELSE
            LET c == IF sr.hit /\ Len(sr.msg.answer) > 0
                         THEN Remove(sr.cache, key) ELSE sr.cache
            IN  \E reach \in BOOLEAN :
                  \E ret \in ServeSwitchMain(m0, req, name, n, reach) :
                      fin("auth", reach, ret, c, FALSE)

\* the client takes the replies
Receive ==
    /\ resp.path # "idle"
    /\ resp' = Idle
    /\ UNCHANGED <<store, dirs, expired, now, config, rcache>>

\* a service is registered: the leaf is written, with an expiration when
\* ttl is not 0, and the directories above it come into being
PutService(key, serv, ttl) ==
    /\ resp.path = "idle"
    /\ store' = [store EXCEPT ![key] =
                    [value |-> serv,
                     exp |-> IF ttl = 0 THEN 0 ELSE now + ttl]]
    /\ dirs' = dirs \cup DirsOf(key)
    /\ expired' = expired \ {key}
    /\ UNCHANGED <<now, config, rcache, resp>>

\* a service is taken out of the store
DeleteService(key) ==
    /\ resp.path = "idle"
    /\ store[key] # NoNode
    /\ store' = [store EXCEPT ![key] = NoNode]
    /\ UNCHANGED <<dirs, expired, now, config, rcache, resp>>

\* a second passes; etcd drops the leaves whose time has come
Tick ==
    /\ resp.path = "idle"
    /\ now < MaxTime
    /\ now' = now + 1
    /\ store' = [k \in DOMAIN store |->
                    IF store[k] # NoNode /\ store[k].exp # 0
                       /\ store[k].exp <= now + 1
                        THEN NoNode ELSE store[k]]
    /\ expired' = expired \cup {k \in DOMAIN store : store'[k] # store[k]}
    /\ UNCHANGED <<dirs, config, rcache, resp>>

(***************************************************************************)
(* The server of package server with the response cache switched off (the  *)
(* default), over a store with one leaf, one directory of two leaves and   *)
(* one reverse name.                                                       *)
(***************************************************************************)
\* a service TTL above the default
HighTtl == CfgTtl + 1

\* the services a leaf may hold
Services(key) ==
    IF key = Path(NameA) THEN
        {Service(IPv4, 0, <<"txt">>),
         Service(HostOf(NameXB), 0, <<>>), Service(HostOf(NameA), 0, <<>>),
         Service(HostOf(NameNX), 0, <<>>), Service(HostOf(NameExt), 0, <<>>)}
    ELSE IF key = Path(NameXB) THEN
        {Service(IPv4, HighTtl, <<>>), Service(IPv4, 1, <<>>),
         Service(IPv6, 0, <<>>), Service(HostOf(NameA), 0, <<>>)}
    ELSE IF key = Path(NameYB) THEN
        {Service(IPv4b, HighTtl, <<>>)}
    ELSE {Service(HostOf(NameA), 0, <<>>)}

\* the keys services are registered under and deleted from
Keys == {Path(NameA), Path(NameXB), Path(NameYB), Path(NameRev)}

\* the names asked for: those of the zone, and those that go to the
\* forwarder or to the reverse handler
QNames == {NameA, NameB, NameXB, NameNX, Domain}

QNamesOutside == {NameExt, NameRev, NameRevNX}

QTypes == {"A", "AAAA", "SRV", "TXT", "CNAME", "NS", "PTR", "SOA", "DNSKEY",
           "ANY", "MX"}

\* the id of a request matters to the forwarder only, the DO bit to the
\* authoritative part only
Queries ==
    {Question(n, t, do, 0) : n \in QNames, t \in QTypes, do \in BOOLEAN}
    \cup {Question(n, t, FALSE, id) :
              n \in QNamesOutside, t \in QTypes, id \in 0..MaxId}
    \cup {Question(NameLookalike, t, FALSE, 0) : t \in {"A", "SRV"}}

Init ==
    /\ store = [k \in Keys |-> NoNode]
    /\ dirs = {}
    /\ expired = {}
    /\ now = 0
    /\ config \in {[Nameservers |-> n] : n \in 0..MaxNameservers}
    /\ rcache = NewCache(0)
    /\ resp = Idle

Put == \E key \in Keys : \E serv \in Services(key) : PutService(key, serv, 0)

Delete == \E key \in Keys : DeleteService(key)

Query == \E req \in Queries : ServeDNS(req)

Next == Put \/ Delete \/ Query \/ Receive

Spec == Init /\ [][Next]_vars

(***************************************************************************)
(* The server of package main, same store, response cache switched off.    *)
(***************************************************************************)
QueriesMain ==
    Queries \cup
    {Question(n, t, do, 0) :
        n \in {NameDns, NameNs(1)}, t \in QTypes, do \in BOOLEAN}

QueryMain == \E req \in QueriesMain : ServeDNSMain(req)

NextMain == Put \/ Delete \/ QueryMain \/ Receive

SpecMain == Init /\ [][NextMain]_vars

(***************************************************************************)
(* The server of package server with the response cache switched on, and   *)
(* time: services are registered with an etcd TTL and expire.              *)
(***************************************************************************)
\* the largest capacity of the response cache
MaxCapacity == 2

\* the largest etcd TTL a service is registered with
MaxEtcdTtl == 1

QueriesCache ==
    {Question(NameA, "A", FALSE, 0), Question(NameA, "SRV", FALSE, 0),
     Question(NameNX, "A", FALSE, 0)}

InitCache ==
    /\ store = [k \in Keys |-> NoNode]
    /\ dirs = {}
    /\ expired = {}
    /\ now = 0
    /\ config = [Nameservers |-> 0]
    /\ rcache \in {NewCache(capacity) : capacity \in 1..MaxCapacity}
    /\ resp = Idle

PutCache ==
    \E ttl \in 0..MaxEtcdTtl :
        PutService(Path(NameA), Service(IPv4, 0, <<>>), ttl)

DeleteCache == DeleteService(Path(NameA))

QueryCache == \E req \in QueriesCache : ServeDNS(req)

NextCache == PutCache \/ DeleteCache \/ Tick \/ QueryCache \/ Receive

SpecCache == InitCache /\ [][NextCache]_vars

(***************************************************************************)
(* CNAME chains: the store holds c1 -> c2 -> ... -> cL, and the last leaf  *)
(* is an address, a CNAME to a name that is not there, or a CNAME back     *)
(* into the chain.                                                         *)
(***************************************************************************)
ChainLabels == <<"c1", "c2", "c3", "c4", "c5", "c6", "c7", "c8", "c9", "c10",
                 "c11", "c12">>

ChainName(i) == Name(<<<<ChainLabels[i]>>, <<"skydns">>, <<"test">>>>)

\* the store with the chain of l leaves whose last leaf holds host
ChainStore(l, host) ==
    [k \in {Path(ChainName(i)) : i \in 1..l} |->
        LET i == CHOOSE j \in 1..l : k = Path(ChainName(j))
        IN  [value |-> Service(IF i < l THEN HostOf(ChainName(i + 1)) ELSE host,
                               0, <<>>),
             exp |-> 0]]

InitCNAME ==
    /\ \E l \in 1..MaxChain :
         \E host \in {IPv4, HostOf(NameNX)} \cup {HostOf(ChainName(j)) : j \in 1..l} :
            store = ChainStore(l, host)
    /\ dirs = DirsOf(Path(ChainName(1)))
    /\ expired = {}
    /\ now = 0
    /\ config = [Nameservers |-> 0]
    /\ rcache = NewCache(0)
    /\ resp = Idle

QueryCNAME ==
    \E t \in {"A", "AAAA"}, do \in BOOLEAN :
        ServeDNS(Question(ChainName(1), t, do, 0))

NextCNAME == QueryCNAME \/ Receive

SpecCNAME == InitCNAME /\ [][NextCNAME]_vars

(***************************************************************************)
(* SRV weights: the directory b holds two services whose weights and       *)
(* priorities are drawn from their ranges, and the leaf a may hold a       *)
(* third one.                                                              *)
(***************************************************************************)
\* the largest weight a service is registered with
MaxWeight == 97

\* a service with a priority and a weight
SRVService(host, priority, weight) ==
    [Service(host, 0, <<>>) EXCEPT !.Priority = priority, !.Weight = weight]

InitSRV ==
    /\ \E w1 \in 0..MaxWeight, w2 \in {0, 1, 2, MaxWeight}, p2 \in {0, 20},
          third \in BOOLEAN :
          store = [k \in Keys |->
                      IF k = Path(NameXB)
                          THEN [value |-> SRVService(IPv4, 0, w1), exp |-> 0]
                      ELSE IF k = Path(NameYB)
                          THEN [value |-> SRVService(IPv4b, p2, w2), exp |-> 0]
                      ELSE IF k = Path(NameA) /\ third
                          THEN [value |-> SRVService(IPv6, 0, 0), exp |-> 0]
                      ELSE NoNode]
    /\ dirs = DirsOf(Path(NameXB))
    /\ expired = {}
    /\ now = 0
    /\ config = [Nameservers |-> 0]
    /\ rcache = NewCache(0)
    /\ resp = Idle

QuerySRV ==
    \E n \in {NameB, Domain} : ServeDNS(Question(n, "SRV", FALSE, 0))

NextSRV == QuerySRV \/ Receive

SpecSRV == InitSRV /\ [][NextSRV]_vars

(***************************************************************************)
(* Wildcards: the server of package main over stores whose leaves differ   *)
(* in depth and in the case of a label, asked names with wildcard labels.  *)
(***************************************************************************)
WildKeys == {Path(NameA), Path(NameXB), Path(NameYB), Path(NameUpper)}

\* the service of a leaf; no two are the same bare service
WildService(key) ==
    IF key = Path(NameA) THEN SRVService(IPv4, 0, 0)
    ELSE IF key = Path(NameXB) THEN SRVService(IPv4b, 0, 0)
    ELSE IF key = Path(NameYB) THEN SRVService(IPv6, 0, 0)
    ELSE SRVService(IPv4, 20, 0)

WildName(labels) == Name(labels \o <<<<"skydns">>, <<"test">>>>)

\* *.b  a.*  x.*  *  *.*  and X.* as a client may spell it
WildNames ==
    {WildName(<<Star, <<"b">>>>), WildName(<<<<"a">>, Star>>),
     WildName(<<<<"x">>, Star>>), WildName(<<Star>>),
     WildName(<<Star, Star>>), WildName(<<<<"B">>, Star>>)}

InitWild ==
    /\ \E present \in SUBSET WildKeys :
          /\ store = [k \in WildKeys |->
                         IF k \in present THEN [value |-> WildService(k), exp |-> 0]
                         ELSE NoNode]
          /\ dirs = UNION {DirsOf(k) : k \in present}
    /\ expired = {}
    /\ now = 0
    /\ config = [Nameservers |-> 0]
    /\ rcache = NewCache(0)
    /\ resp = Idle

QueryWild ==
    \E n \in WildNames, t \in {"SRV", "A", "AAAA"} :
        ServeDNSMain(Question(n, t, FALSE, 0))

NextWild == QueryWild \/ Receive

SpecWild == InitWild /\ [][NextWild]_vars

(***************************************************************************)
(* TTLs: the server of package main over a leaf of the zone and a leaf of  *)
(* the reverse zone, registered with and without a TTL of their own and    *)
(* with and without an etcd TTL, while time passes.                        *)
(***************************************************************************)
TtlKeys == {Path(NameA), Path(NameRev)}

\* the TTLs a service is registered with: none, below and above the default
ServiceTtls == {0, CfgMinTtl, HighTtl}

InitTtl ==
    /\ \E ttl \in [TtlKeys -> ServiceTtls], exp \in [TtlKeys -> {0, MaxTime}] :
          store = [k \in TtlKeys |->
                      [value |-> Service(IF k = Path(NameA) THEN IPv4
                                         ELSE HostOf(NameA), ttl[k], <<>>),
                       exp |-> exp[k]]]
    /\ dirs = UNION {DirsOf(k) : k \in TtlKeys}
    /\ expired = {}
    /\ now = 0
    /\ config = [Nameservers |-> 0]
    /\ rcache = NewCache(0)
    /\ resp = Idle

QueryTtl ==
    \/ ServeDNSMain(Question(NameA, "A", FALSE, 0))
    \/ ServeDNSMain(Question(NameRev, "PTR", FALSE, 0))

NextTtl == QueryTtl \/ Tick \/ Receive

SpecTtl == InitTtl /\ [][NextTtl]_vars

(***************************************************************************)
(* Names and paths: services are registered under names, as addService     *)
(* does it (the path of the name is the key), and the server of package    *)
(* server turns the keys back into names for the targets of SRV records.   *)
(* A leaf remembers the name it was registered under.                      *)
(***************************************************************************)
\* b/x.skydns.test., a name with a slash in its first label
NameSlash == Name(<<<<"b", Slash, "x">>, <<"skydns">>, <<"test">>>>)

\* the names services are registered under: in lower and in upper case,
\* with and without the closing dot, with a slash in a label.  path.Join
\* leaves the paths of these names as they are.
CodecNames == {NameA, NameXB, NameYB, HostOf(NameXB), NameUpper, NameSlash}

\* the priority of the service of a name: no two names have the same bare
\* service
CodecPriority(n) ==
    IF n = NameA THEN 1 ELSE IF n = NameXB THEN 2 ELSE IF n = NameYB THEN 3
    ELSE IF n = HostOf(NameXB) THEN 4 ELSE IF n = NameUpper THEN 5 ELSE 6

InitCodec ==
    /\ store = [k \in {Path(n) : n \in CodecNames} |-> NoNode]
    /\ dirs = {}
    /\ expired = {}
    /\ now = 0
    /\ config = [Nameservers |-> 0]
    /\ rcache = NewCache(0)
    /\ resp = Idle

\* addService(k, 0, m): the service is created at Path(k)
AddCodec ==
    \E n \in CodecNames :
        /\ resp.path = "idle"
        /\ store' = [store EXCEPT ![Path(n)] =
                        [value |-> SRVService(IPv4, CodecPriority(n), 0),
                         exp |-> 0, name |-> n]]
        /\ dirs' = dirs \cup DirsOf(Path(n))
        /\ UNCHANGED <<expired, now, config, rcache, resp>>

QueryCodec ==
    \E n \in {NameA, NameB, NameXB} : ServeDNS(Question(n, "SRV", FALSE, 0))

NextCodec == AddCodec \/ QueryCodec \/ Receive

SpecCodec == InitCodec /\ [][NextCodec]_vars

(***************************************************************************)
(* Cache hits: two addresses below b.skydns.test., the response cache      *)
(* switched on, the same question asked again and again with different    *)
(* ids and with and without the DO bit.                                    *)
(***************************************************************************)
QueriesHit == {Question(NameB, "A", do, id) : do \in BOOLEAN, id \in 0..MaxId}

InitHit ==
    /\ store = [k \in {Path(NameXB), Path(NameYB)} |->
                   [value |-> Service(IF k = Path(NameXB) THEN IPv4 ELSE IPv4b,
                                      0, <<>>),
                    exp |-> 0]]
    /\ dirs = DirsOf(Path(NameXB))
    /\ expired = {}
    /\ now = 0
    /\ config = [Nameservers |-> 0]
    /\ rcache \in {NewCache(capacity) : capacity \in 1..(2 * MaxCapacity)}
    /\ resp = Idle

QueryHit == \E req \in QueriesHit : ServeDNS(req)

NextHit == QueryHit \/ Receive

SpecHit == InitHit /\ [][NextHit]_vars

\* the same for the server of package main
QueryHitMain == \E req \in QueriesHit : ServeDNSMain(req)

NextHitMain == QueryHitMain \/ Receive

SpecHitMain == InitHit /\ [][NextHitMain]_vars

(***************************************************************************)
(* The signature cache: RRsets are signed one after the other, the RRSIG   *)
(* of an RRset is looked up under its key and made and kept on a miss.     *)
(***************************************************************************)
\* what Key appends for one record of the RRset
KeyOfRR(r) ==
    IF r.rrtype = "SOA" THEN <<r.data.serial>>
    ELSE IF r.rrtype = "SRV"
        THEN <<r.data.priority, r.data.weight, r.data.weight, r.data.target>>
    ELSE IF r.rrtype \in {"A", "AAAA"} THEN <<r.data>>
    ELSE IF r.rrtype = "NSEC3" THEN <<r.data>>
    ELSE <<>>

RECURSIVE KeyOfRRs(_)
KeyOfRRs(rrs) ==
    IF rrs = <<>> THEN <<>> ELSE KeyOfRR(Head(rrs)) \o KeyOfRRs(Tail(rrs))

\* Key: the name and the type of the first record, and of each record what
\* its type has serialized; the hash is that of the whole
Key(rrs) == <<rrs[1].name, rrs[1].rrtype>> \o KeyOfRRs(rrs)

\* the RRSIG of an RRset: it is good for the owner, the type and the rdata
\* it was made over
NewRRSIG(rrs) ==
    RR(rrs[1].name, "RRSIG", rrs[1].ttl,
       [covered |-> rrs[1].rrtype,
        rdata |-> [i \in 1..Len(rrs) |-> rrs[i].data]])

\* InsertSignature inserts a signature in the cache; it counts for one.
\* The signature is kept until it expires, which no behaviour here outlasts.
InsertSignature(c, s, sig) ==
    IF c.capacity = 0 THEN c
    ELSE LET e  == Elem(s, now + CfgRCacheTtl,
                        [answer |-> <<sig>>, extra |-> <<>>])
             c1 == IF s \notin DOMAIN c.m
                       THEN [c EXCEPT !.l = <<e>> \o c.l,
                                      !.m = (s :> e) @@ c.m]
                       ELSE c
         IN  shrink([c1 EXCEPT !.size = (c.size + 1) % UintMod])

SRVOf(name, port, target) ==
    RR(name, "SRV", CfgTtl,
       [priority |-> CfgPriority, weight |-> 100, port |-> port,
        target |-> target])

\* the RRsets that are signed: address, SRV, TXT, CNAME and SOA sets that
\* differ in the owner, in the type, or in the rdata of a member only
RRsets ==
    {<<RR(n, "A", CfgTtl, ip)>> : n \in {NameA, NameB}, ip \in {IPv4, IPv4b}}
    \cup {<<RR(NameB, "A", CfgTtl, IPv4), RR(NameB, "A", CfgTtl, IPv4b)>>,
          <<RR(NameA, "AAAA", CfgTtl, IPv6)>>}
    \cup {<<SRVOf(NameB, port, NameXB)>> : port \in {0, 1}}
    \cup {<<SRVOf(NameB, 0, NameXB), SRVOf(NameB, 0, NameYB)>>}
    \cup {<<RR(NameA, "TXT", CfgTtl, <<t>>)>> : t \in {"txt", "text"}}
    \cup {<<RR(NameA, "CNAME", CfgTtl, t)>> : t \in {NameXB, NameExt}}
    \cup {<<RR(Domain, "SOA", CfgTtl,
              [ns |-> NameDns, minttl |-> CfgMinTtl, serial |-> t])>> :
              t \in 0..MaxTime}

InitSig ==
    /\ store = [k \in Keys |-> NoNode]
    /\ dirs = {}
    /\ expired = {}
    /\ now = 0
    /\ config = [Nameservers |-> 0]
    /\ rcache \in {NewCache(capacity) : capacity \in 1..MaxCapacity}
    /\ resp = Idle

\* An RRset of a reply is signed: with the RRSIG the cache has under its
\* key, or with a new one, which goes into the cache.  pre is the RRset,
\* the reply has the RRSIG after it.
SignRRset ==
    \E rrs \in RRsets :
        LET key == Key(rrs)
            sr  == Search(rcache, key)
            sig == IF sr.hit THEN sr.msg.answer[1] ELSE NewRRSIG(rrs)
        IN  /\ resp.path = "idle"
            /\ rcache' = IF sr.hit THEN sr.cache
                          ELSE InsertSignature(sr.cache, key, sig)
            /\ resp' = Served("main", IF sr.hit THEN "sighit" ELSE "sigmiss",
                              Question(rrs[1].name, rrs[1].rrtype, TRUE, 0),
                              TRUE,
                              Done(<<Msg(0, "NOERROR", TRUE, Append(rrs, sig),
                                         <<>>, <<>>)>>, <<>>),
                              rrs, "nil", {})
            /\ UNCHANGED <<store, dirs, expired, now, config>>

NextSig == SignRRset \/ Receive

SpecSig == InitSig /\ [][NextSig]_vars

(***************************************************************************)
(* CNAME chains that leave the domain: c1 -> c2 -> ... -> cL -> ext.com.,  *)
(* with nameservers to look ext.com. up at.                                *)
(***************************************************************************)
InitExt ==
    /\ \E l \in 1..MaxChain : store = ChainStore(l, HostOf(NameExt))
    /\ dirs = DirsOf(Path(ChainName(1)))
    /\ expired = {}
    /\ now = 0
    /\ config \in {[Nameservers |-> n] : n \in 1..MaxNameservers}
    /\ rcache = NewCache(MaxCapacity)
    /\ resp = Idle

NextExt == QueryCNAME \/ Receive

SpecExt == InitExt /\ [][NextExt]_vars

(***************************************************************************)
(* The deferred function of ServeDNS, statement by statement.  resp has    *)
(* three more fields here: pc, the statement of DeferredOrder that is      *)
(* next (0 outside the handler, one more than their number when the        *)
(* handler has returned); m, the message in the making, with passes, the   *)
(* number of times the TTLs of its answer went through the rewrite; and    *)
(* steps, the statements that have acted, in order.  config.handler names  *)
(* the package the handler is of.  snap is what the insert has put into    *)
(* the cache, and aliased says that the element under the key is the one   *)
(* this handler has put there.                                             *)
(***************************************************************************)
\* the deferred function lets the answer go through the rewrite of the TTLs
\* after the insert into the cache
DeferredOrder_mutant == <<"insert", "rewrite", "sign", "write">>

\* the statements of the deferred function, in the order of the code
DeferredOrder == <<"rewrite", "insert", "sign", "write">>

Returned0 == Len(DeferredOrder) + 1

QueriesOrder == QueriesHit \cup {Question(NameNX, "A", do, 0) : do \in BOOLEAN}

InFlight(path, q, reach, pc, m, cached, steps, replies) ==
    [handler |-> config.handler, path |-> path, q |-> q, reach |-> reach,
     replies |-> replies, exchanges |-> <<>>, pre |-> m.answer, err |-> "nil",
     ev |-> {}, pc |-> pc, m |-> m, cached |-> cached, steps |-> steps,
     aliased |-> FALSE, snap |-> <<>>]

IdleOrder ==
    [handler |-> "none", path |-> "idle", q |-> Question(<<>>, "A", FALSE, 0),
     reach |-> TRUE, replies |-> <<>>, exchanges |-> <<>>, pre |-> <<>>,
     err |-> "nil", ev |-> {}, pc |-> 0,
     m |-> [answer |-> <<>>, passes |-> 0], cached |-> FALSE, steps |-> <<>>,
     aliased |-> FALSE, snap |-> <<>>]

\* the message with the count of its passes through the rewrite
Passed(m, passes) ==
    [id |-> m.id, rcode |-> m.rcode, aa |-> m.aa, answer |-> m.answer,
     ns |-> m.ns, extra |-> m.extra, passes |-> passes, tc |-> FALSE]

\* what InsertMsg of package main is given: the slices of the answer and of
\* the extra section
Slices(m) == [answer |-> m.answer, extra |-> m.extra, passes |-> m.passes]

\* a cached slice that sees all of the slice of the message
View_mutant(c, before, after) == after

\* A slice c of the cache that was made of the slice before of a message,
\* after the handler has made after of before: the two share their records
\* and c has its own length, so c has the records that were changed in
\* their place and none of those that were appended.
View(c, before, after) ==
    [i \in 1..Len(c) |->
        IF i <= Len(before) /\ i <= Len(after) /\ after[i] # before[i]
            THEN after[i] ELSE c[i]]

\* sign: every section that has records gets the RRSIG of its records
\* appended
SignSection(rrs) == IF rrs = <<>> THEN rrs ELSE Append(rrs, NewRRSIG(rrs))

SignAll(m) ==
    [m EXCEPT !.answer = SignSection(@), !.ns = SignSection(@),
              !.extra = SignSection(@)]

\* the cache of package main after the handler has made after of the
\* message before: the element it has inserted holds slices of the message
Shared(c, key, before, after) ==
    IF key \notin DOMAIN c.m THEN c
    ELSE LET e  == c.m[key]
             e1 == [e EXCEPT
                       !.msg.answer = View(@, before.answer, after.answer),
                       !.msg.extra = View(@, before.extra, after.extra)]
         IN  [c EXCEPT !.m = [@ EXCEPT ![key] = e1],
                       !.l = [i \in 1..Len(@) |->
                                 IF @[i] = e THEN e1 ELSE @[i]]]

KeyOrder0(q) ==
    IF config.handler = "server" THEN QuestionKey(q) ELSE QuestionKeyMain(q)

InitOrder ==
    /\ store = [k \in {Path(NameXB), Path(NameYB)} |->
                   [value |-> Service(IF k = Path(NameXB) THEN IPv4 ELSE IPv4b,
                                      0, <<>>),
                    exp |-> 0]]
    /\ dirs = DirsOf(Path(NameXB))
    /\ expired = {}
    /\ now = 0
    /\ config \in {[Nameservers |-> 0, handler |-> h] : h \in {"server", "main"}}
    /\ rcache \in {NewCache(capacity) : capacity \in 1..(2 * MaxCapacity)}
    /\ resp = IdleOrder

\* ServeDNS up to its return: a hit of package server is written at once,
\* everything else is left to the deferred function
Body ==
    \E req \in QueriesOrder :
      LET key  == KeyOrder0(req)
          sr   == Search(rcache, key)
          name == ToLower(req.name)
          m0   == NewReply(req)
          live == sr.hit /\ now < sr.exp
          c    == IF sr.hit THEN Remove(sr.cache, key) ELSE sr.cache
      IN
      /\ resp.pc = 0
      /\ UNCHANGED <<store, dirs, expired, now, config>>
      /\ IF config.handler = "server" THEN
              IF live THEN
                  /\ rcache' = sr.cache
                  /\ \E a \in RoundRobin(sr.msg.answer) :
                        LET m1 == [sr.msg EXCEPT !.id = req.id, !.answer = a]
                        IN  resp' = InFlight("hit", req, TRUE, Returned0, m1,
                                             TRUE, <<"write">>, <<m1>>)
              ELSE
                  /\ rcache' = c
                  /\ \E reach \in BOOLEAN :
                        \E ret \in ServeAuth(req, 0, reach) :
                          resp' = InFlight("auth", req, reach, 1,
                                           Passed(ret.m, 0), FALSE, <<>>, <<>>)
         ELSE
              IF live /\ Len(sr.msg.answer) > 0 THEN
                  /\ rcache' = sr.cache
                  /\ resp' = InFlight("hit", req, TRUE, 1,
                                 Passed([m0 EXCEPT !.answer = sr.msg.answer,
                                                   !.extra = sr.msg.extra],
                                        sr.msg.passes),
                                 TRUE, <<>>, <<>>)
              ELSE
                  /\ rcache' = IF sr.hit /\ Len(sr.msg.answer) > 0
                                   THEN c ELSE sr.cache
                  /\ \E reach \in BOOLEAN :
                        \E ret \in ServeSwitchMain(m0, req, name, 0, reach) :
                          resp' = InFlight("auth", req, reach, 1,
                                           Passed(ret.m, 0), FALSE, <<>>, <<>>)

\* the next statement of the deferred function
Deferred ==
    LET st == DeferredOrder[resp.pc]
        m  == resp.m
    IN
    /\ resp.pc \in 1..Len(DeferredOrder)
    /\ UNCHANGED <<store, dirs, expired, now, config>>
    /\ IF st = "rewrite" THEN
            /\ resp' = [resp EXCEPT !.pc = @ + 1,
                            !.m = [m EXCEPT !.answer = RewriteTtl(@),
                                            !.passes = @ + 1],
                            !.steps = Append(@, st)]
            /\ UNCHANGED rcache
       ELSE IF st = "insert" THEN
            IF resp.cached THEN
                /\ resp' = [resp EXCEPT !.pc = @ + 1]
                /\ UNCHANGED rcache
            ELSE
                /\ resp' = [resp EXCEPT
                       !.pc = @ + 1, !.steps = Append(@, st),
                       !.aliased = KeyOrder0(resp.q) \notin DOMAIN rcache.m,
                       !.snap = IF config.handler = "server" THEN m
                                ELSE Slices(m)]
                /\ rcache' = InsertMessage(rcache, KeyOrder0(resp.q),
                                 IF config.handler = "server" THEN m
                                 ELSE Slices(m))
       ELSE IF st = "sign" THEN
            IF resp.q.do /\ CfgDNSSEC
                THEN LET m1 == SignAll(Denial(m))
                     IN  /\ resp' = [resp EXCEPT !.pc = @ + 1, !.m = m1,
                                         !.steps = Append(@, st)]
                         /\ rcache' = IF config.handler = "main" /\ resp.aliased
                                          THEN Shared(rcache, KeyOrder0(resp.q),
                                                      m, m1)
                                          ELSE rcache
                ELSE /\ resp' = [resp EXCEPT !.pc = @ + 1]
                     /\ UNCHANGED rcache
       ELSE
            /\ UNCHANGED rcache
            /\ \E tc \in (IF config.handler = "server" THEN BOOLEAN
                           ELSE {FALSE}) :
                  LET m1 == [m EXCEPT !.tc = tc]
                  IN  resp' = [resp EXCEPT !.pc = @ + 1, !.m = m1,
                                  !.replies = <<m1>>, !.steps = Append(@, st)]

\* the handler has returned and the client takes the reply
Return ==
    /\ resp.pc = Returned0
    /\ resp' = IdleOrder
    /\ UNCHANGED <<store, dirs, expired, now, config, rcache>>

NextOrder == Body \/ Deferred \/ Return

SpecOrder == InitOrder /\ [][NextOrder]_vars

(***************************************************************************)
(* The server of package main with the response cache switched on, and     *)
(* time.                                                                   *)
(***************************************************************************)
QueryCacheMain == \E req \in QueriesCache : ServeDNSMain(req)

NextCacheMain == PutCache \/ DeleteCache \/ Tick \/ QueryCacheMain \/ Receive

SpecCacheMain == InitCache /\ [][NextCacheMain]_vars

(***************************************************************************)
(* The cache by itself, under any history of its operations.  resp keeps   *)
(* the last operation: its name in path, its key, the number of RRs of an  *)
(* insert and what a search has found.                                     *)
(***************************************************************************)
\* the largest number of RRs of an inserted message
MaxRRs == 2

KeysLRU == {QuestionKeyMain(Question(n, "A", FALSE, 0)) : n \in {NameA, NameB}}

\* a message of n RRs
MsgOf(n) ==
    [answer |-> [i \in 1..n |-> RR(NameA, "A", CfgTtl, <<"10.0.0.1">>)],
     extra |-> <<>>]

LastOp(op, key, n, found) ==
    [handler |-> "none", path |-> op, key |-> key, n |-> n, found |-> found]

InitLRU ==
    /\ store = [k \in Keys |-> NoNode]
    /\ dirs = {}
    /\ expired = {}
    /\ now = 0
    /\ config = [Nameservers |-> 0]
    /\ rcache \in {NewCache(capacity) : capacity \in 1..MaxCapacity}
    /\ resp = LastOp("new", <<>>, 0, FALSE)

InsertOp ==
    \E key \in KeysLRU, n \in 0..MaxRRs :
        /\ rcache' = InsertMessage(rcache, key, MsgOf(n))
        /\ resp' = LastOp("insert", key, n, FALSE)
        /\ UNCHANGED <<store, dirs, expired, now, config>>

SearchOp ==
    \E key \in KeysLRU :
        /\ rcache' = Search(rcache, key).cache
        /\ resp' = LastOp("search", key, 0, Search(rcache, key).hit)
        /\ UNCHANGED <<store, dirs, expired, now, config>>

RemoveOp ==
    \E key \in KeysLRU :
        /\ rcache' = Remove(rcache, key)
        /\ resp' = LastOp("remove", key, 0, FALSE)
        /\ UNCHANGED <<store, dirs, expired, now, config>>

NextLRU == InsertOp \/ SearchOp \/ RemoveOp

SpecLRU == InitLRU /\ [][NextLRU]_vars

(***************************************************************************)
(* The cache under concurrent handlers.  Each handler goroutine g calls    *)
(* search or insert; resp keeps, for each g, where it is (pc), what it     *)
(* calls (op) and with which key, and for the mutex of the cache the       *)
(* number of read locks held (readers) and the holder of the write lock    *)
(* (writer, 0 for none).  config.shared tells the caches whose search      *)
(* takes the read lock (cache1, and cache of the later package main) from  *)
(* the Cache whose Search takes the write lock.  A handler is "moving"     *)
(* while it changes the pointers of the list; raced holds the handlers     *)
(* that did so at the same time as another.                                *)
(***************************************************************************)
\* the number of handler goroutines
NumHandlers == 2

Handlers == 1..NumHandlers

\* the lists a data race on the pointers of the list may leave behind: any
\* arrangement of any of the elements
RaceOutcomes(c) ==
    LET es == {c.m[k] : k \in DOMAIN c.m}
    IN  {l \in UNION {[1..n -> es] : n \in 0..Cardinality(es)} :
            \A i, j \in DOMAIN l : i # j => l[i] # l[j]}

InitLock ==
    /\ store = [k \in Keys |-> NoNode]
    /\ dirs = {}
    /\ expired = {}
    /\ now = 0
    /\ config \in {[Nameservers |-> 0, shared |-> b] : b \in BOOLEAN}
    /\ rcache \in {InsertMessage(InsertMessage(NewCache(2 * MaxCapacity),
                                               k1, MsgOf(1)), k2, MsgOf(1)) :
                       k1, k2 \in KeysLRU}
    /\ resp = [handler |-> "none", path |-> "lock",
               pc |-> [g \in Handlers |-> "idle"],
               op |-> [g \in Handlers |-> "search"],
               key |-> [g \in Handlers |-> <<>>],
               readers |-> 0, writer |-> 0, raced |-> {}]

\* c.Lock() of insert and of the Search of Cache, c.RLock() of the search
\* of cache1
Acquire(g) ==
    \E op \in {"search", "insert"}, key \in KeysLRU :
        /\ resp.pc[g] = "idle"
        /\ resp.writer = 0
        /\ IF op = "search" /\ config.shared
               THEN resp' = [resp EXCEPT !.pc[g] = "held", !.op[g] = op,
                                         !.key[g] = key, !.readers = @ + 1]
               ELSE /\ resp.readers = 0
                    /\ resp' = [resp EXCEPT !.pc[g] = "held", !.op[g] = op,
                                             !.key[g] = key, !.writer = g]
        /\ UNCHANGED <<store, dirs, expired, now, config, rcache>>

\* the first half of the change of the list: MoveToFront takes the element
\* out of the list; a search that misses changes nothing
Begin(g) ==
    /\ resp.pc[g] = "held"
    /\ IF resp.op[g] = "search" /\ resp.key[g] \notin DOMAIN rcache.m
           THEN /\ resp' = [resp EXCEPT !.pc[g] = "done"]
                /\ UNCHANGED rcache
           ELSE /\ resp' = [resp EXCEPT
                      !.pc[g] = "moving",
                      !.raced = IF \E h \in Handlers : resp.pc[h] = "moving"
                                    THEN @ \cup {g} \cup
                                         {h \in Handlers : resp.pc[h] = "moving"}
                                    ELSE @]
                /\ rcache' = IF resp.op[g] = "search"
                                 THEN [rcache EXCEPT
                                          !.l = ListRemove(@, rcache.m[resp.key[g]])]
                                 ELSE rcache
    /\ UNCHANGED <<store, dirs, expired, now, config>>

\* the second half: MoveToFront puts the element at the front, insert adds
\* its element and shrinks; after a race the list is whatever the race left
Finish(g) ==
    /\ resp.pc[g] = "moving"
    /\ resp' = [resp EXCEPT !.pc[g] = "done", !.raced = @ \ {g}]
    /\ IF resp.op[g] = "insert"
           THEN rcache' = InsertMessage(rcache, resp.key[g], MsgOf(1))
       ELSE IF g \in resp.raced
           THEN \E l \in RaceOutcomes(rcache) : rcache' = [rcache EXCEPT !.l = l]
       ELSE rcache' = [rcache EXCEPT
                          !.l = <<rcache.m[resp.key[g]]>> \o
                                ListRemove(@, rcache.m[resp.key[g]])]
    /\ UNCHANGED <<store, dirs, expired, now, config>>

\* the deferred c.Unlock() or c.RUnlock()
Release(g) ==
    /\ resp.pc[g] = "done"
    /\ resp' = IF resp.writer = g
                   THEN [resp EXCEPT !.pc[g] = "idle", !.writer = 0]
                   ELSE [resp EXCEPT !.pc[g] = "idle", !.readers = @ - 1]
    /\ UNCHANGED <<store, dirs, expired, now, config, rcache>>

NextLock ==
    \E g \in Handlers : Acquire(g) \/ Begin(g) \/ Finish(g) \/ Release(g)

SpecLock == InitLock /\ [][NextLock]_vars

(***************************************************************************)
(* Forwarding by concurrent handlers through the clients of package        *)
(* server, which are made with SingleInflight: the exchanges of the same   *)
(* question that are under way at the same time are one exchange, the one  *)
(* of the handler that came first, and every handler of the flight is      *)
(* given the reply to it.  resp keeps, for each handler g, where it is     *)
(* (pc), its request (req), what Exchange gave it (got) and what it wrote  *)
(* (replies); flight keeps, for each question type, the handlers of the    *)
(* flight, the first of them (leader, 0 for no flight) and the id that     *)
(* went upstream.                                                          *)
(***************************************************************************)
FlightTypes == {"A", "AAAA"}

NoFlight == [leader |-> 0, members |-> {}, id |-> 0]

\* the reply is written as the upstream has sent it
Restore_mutant(r, req) == r

\* r.Id = req.Id, before the reply is written
Restore(r, req) == [r EXCEPT !.id = req.id]

InitFlight ==
    /\ store = [k \in Keys |-> NoNode]
    /\ dirs = {}
    /\ expired = {}
    /\ now = 0
    /\ config = [Nameservers |-> 1]
    /\ rcache = NewCache(0)
    /\ resp = [handler |-> "none", path |-> "flight",
               pc |-> [g \in Handlers |-> "idle"],
               req |-> [g \in Handlers |-> Question(NameExt, "A", FALSE, 0)],
               got |-> [g \in Handlers |-> <<>>],
               replies |-> [g \in Handlers |-> <<>>],
               flight |-> [t \in FlightTypes |-> NoFlight]]

\* ServeDNSStubForward up to the call of Exchange: the first handler with
\* a question sends it upstream, the others join its flight
ExchangeStart(g) ==
    \E t \in FlightTypes, id \in 0..MaxId :
        LET f == resp.flight[t]
        IN  /\ resp.pc[g] = "idle"
            /\ resp' = [resp EXCEPT
                   !.pc[g] = "waiting",
                   !.req[g] = Question(NameExt, t, FALSE, id),
                   !.flight[t] = IF f.leader = 0
                                     THEN [leader |-> g, members |-> {g},
                                           id |-> id]
                                     ELSE [f EXCEPT !.members = @ \cup {g}]]
            /\ UNCHANGED <<store, dirs, expired, now, config, rcache>>

\* the upstream answers the exchange of type t, with the id it was sent,
\* and Exchange returns in every handler of the flight
ExchangeReturn(t) ==
    \E a \in UpstreamAnswers(NameExt, t) :
        LET f == resp.flight[t]
            r == Msg(f.id, "NOERROR", FALSE, a, <<>>, <<>>)
        IN  /\ f.leader # 0
            /\ resp' = [resp EXCEPT
                   !.pc = [g \in Handlers |->
                              IF g \in f.members THEN "got" ELSE @[g]],
                   !.got = [g \in Handlers |->
                               IF g \in f.members THEN r ELSE @[g]],
                   !.flight[t] = NoFlight]
            /\ UNCHANGED <<store, dirs, expired, now, config, rcache>>

\* the rest of ServeDNSStubForward when Exchange has returned no error
WriteForwarded(g) ==
    /\ resp.pc[g] = "got"
    /\ resp' = [resp EXCEPT
           !.pc[g] = "written",
           !.replies[g] = <<Restore(resp.got[g], resp.req[g])>>]
    /\ UNCHANGED <<store, dirs, expired, now, config, rcache>>

\* the client of g takes its reply
TakeForwarded(g) ==
    /\ resp.pc[g] = "written"
    /\ resp' = [resp EXCEPT !.pc[g] = "idle", !.got[g] = <<>>,
                            !.replies[g] = <<>>]
    /\ UNCHANGED <<store, dirs, expired, now, config, rcache>>

NextFlight ==
    \/ \E g \in Handlers :
          ExchangeStart(g) \/ WriteForwarded(g) \/ TakeForwarded(g)
    \/ \E t \in FlightTypes : ExchangeReturn(t)

SpecFlight == InitFlight /\ [][NextFlight]_vars

(***************************************************************************)
(* Duplicates: the server of package main over leaves that may be          *)
(* registered with the same host, port and weight, with no priority or     *)
(* with the priority that is the default.                                  *)
(***************************************************************************)
DupKeys == {Path(NameA), Path(NameXB), Path(NameYB)}

\* the priorities a leaf is registered with: none, and the default itself
DupPriorities == {0, CfgPriority}

DupServices ==
    {SRVService(h, p, w) : h \in {IPv4, IPv4b}, p \in DupPriorities,
                           w \in {0, 1}}

InitDup ==
    /\ \E present \in SUBSET DupKeys, v \in [DupKeys -> DupServices] :
          /\ store = [k \in DupKeys |->
                         IF k \in present THEN [value |-> v[k], exp |-> 0]
                         ELSE NoNode]
          /\ dirs = UNION {DirsOf(k) : k \in present}
    /\ expired = {}
    /\ now = 0
    /\ config = [Nameservers |-> 0]
    /\ rcache = NewCache(0)
    /\ resp = Idle

QueryDup ==
    \E n \in {NameB, Domain, WildName(<<Star, <<"b">>>>)}, t \in {"SRV", "A"} :
        ServeDNSMain(Question(n, t, FALSE, 0))

NextDup == QueryDup \/ Receive

SpecDup == InitDup /\ [][NextDup]_vars

(***************************************************************************)
(* Reverse zones: both handlers asked every type for a name of the zone,   *)
(* a name under in-addr.arpa. and a name under ip6.arpa., the reverse      *)
(* names registered or not.                                                *)
(***************************************************************************)
\* a name under ip6.arpa.
NameRev6 == Name(<<<<"1">>, <<"ip6">>, <<"arpa">>>>)

ReverseKeys == {Path(NameRev), Path(NameRev6)}

QueriesReverse ==
    {Question(n, t, FALSE, 0) : n \in {NameA, NameRev, NameRev6}, t \in QTypes}

InitReverse ==
    /\ \E present \in SUBSET ReverseKeys :
          /\ store = [k \in ReverseKeys |->
                         IF k \in present
                             THEN [value |-> Service(HostOf(NameA), 0, <<>>),
                                   exp |-> 0]
                         ELSE NoNode]
          /\ dirs = UNION {DirsOf(k) : k \in present}
    /\ expired = {}
    /\ now = 0
    /\ config \in {[Nameservers |-> n] : n \in 0..1}
    /\ rcache = NewCache(0)
    /\ resp = Idle

QueryReverse == \E req \in QueriesReverse : ServeDNS(req)

QueryReverseMain == \E req \in QueriesReverse : ServeDNSMain(req)

NextReverse == QueryReverse \/ QueryReverseMain \/ Receive

SpecReverse == InitReverse /\ [][NextReverse]_vars

(***************************************************************************)
(* NSEC3 white lies: the hash of the name asked, as the bytes packBase32    *)
(* unpacks, and the owner and the next hash byteArith makes of it.         *)
(***************************************************************************)
\* the length of a hash in bytes (20 for SHA1), scaled down
HashLen == 2

\* a byte holds 0..255
ByteMod == 256

\* the bytes hashes are drawn from: the ends of the range and some between
ByteValues == {0, 1, 2, 128, ByteMod - 3, ByteMod - 2, ByteMod - 1}

RECURSIVE Borrow(_, _)
\* the second loop of byteArith, from place i down to the first
Borrow(b, i) ==
    IF i = 0 THEN b
    ELSE IF b[i] = 0 THEN Borrow([b EXCEPT ![i] = ByteMod - 1], i - 1)
    ELSE [b EXCEPT ![i] = @ - 1]

RECURSIVE Carry(_, _)
\* the first loop of byteArith, from place i down to the first; it returns
\* from the place it adds to, and when it runs out of places the function
\* goes on with the second loop
Carry(b, i) ==
    IF i = 0 THEN Borrow(b, Len(b))
    ELSE IF b[i] = ByteMod - 1 THEN Carry([b EXCEPT ![i] = 0], i - 1)
    ELSE [b EXCEPT ![i] = @ + 1]

\* byteArith(b, x): adds 1 (x) or -1 to b
byteArith(b, x) == IF x THEN Carry(b, Len(b)) ELSE Borrow(b, Len(b))

\* the record of a denial: the hash of the name, the hash in the owner
\* name and the next hash
Denied(kind, hash, owner, next) ==
    [path |-> kind, hash |-> hash, owner |-> owner, next |-> next]

InitNSEC3 ==
    /\ store = [k \in {} |-> NoNode]
    /\ dirs = {}
    /\ expired = {}
    /\ now = 0
    /\ config = [Nameservers |-> 0]
    /\ rcache = NewCache(0)
    /\ \E hash \in [1..HashLen -> ByteValues] :
          resp = Denied("idle", hash, hash, hash)

\* NewNSEC3NameError: one before for the owner, two on from there for the
\* next hash
NewNSEC3NameError ==
    /\ resp.path = "idle"
    /\ LET before == byteArith(resp.hash, FALSE)
       IN  resp' = Denied("nameerror", resp.hash, before,
                          byteArith(byteArith(before, TRUE), TRUE))
    /\ UNCHANGED <<store, dirs, expired, now, config, rcache>>

\* NewNSEC3NoData: the hash is the owner, one on for the next hash
NewNSEC3NoData ==
    /\ resp.path = "idle"
    /\ resp' = Denied("nodata", resp.hash, resp.hash,
                      byteArith(resp.hash, TRUE))
    /\ UNCHANGED <<store, dirs, expired, now, config, rcache>>

NextNSEC3 == NewNSEC3NameError \/ NewNSEC3NoData

SpecNSEC3 == InitNSEC3 /\ [][NextNSEC3]_vars

RECURSIVE Power(_, _)
Power(x, n) == IF n = 0 THEN 1 ELSE x * Power(x, n - 1)

(***************************************************************************)
(* The expiration of a cached signature.  The expiration of an RRSIG is    *)
(* the time it ends at as a number of 32 bits, in serial number            *)
(* arithmetic: the time modulo 2^32, less than 2^31 seconds from now.      *)
(***************************************************************************)
\* the bits of the expiration field (32), scaled down
SerialBits == 4

SerialMod == Power(2, SerialBits)

\* 1 << 31: half the range of the field
Year68 == Power(2, SerialBits - 1)

\* the latest time of the clock
MaxNow == 40

\* the division of Go on int64: the quotient is truncated toward zero
TruncDiv(a, b) == IF a >= 0 THEN a \div b ELSE -((-a) \div b)

\* the time InsertSignature keeps a signature until: expiration is the
\* field of the RRSIG, unix the time of the clock
SignatureExpiration(expiration, unix) ==
    LET m0 == TruncDiv(expiration - unix, Year68) - 1
        m  == IF m0 < 0 THEN 0 ELSE m0
    IN  expiration - m * Year68

\* the key of the one signature
SigKey == <<"sig">>

\* a signature that ends at the time ends: what was inserted, and when
Inserted0(path, ends, at) == [path |-> path, ends |-> ends, at |-> at]

InitSigExp ==
    /\ store = [k \in {} |-> NoNode]
    /\ dirs = {}
    /\ expired = {}
    /\ now = 0
    /\ config = [Nameservers |-> 0]
    /\ rcache = NewCache(MaxCapacity)
    /\ resp = Inserted0("idle", 0, 0)

TickSigExp ==
    /\ resp.path = "idle"
    /\ now < MaxNow
    /\ now' = now + 1
    /\ UNCHANGED <<store, dirs, expired, config, rcache, resp>>

\* InsertSignature of a signature that is valid now and ends within the
\* reach of serial number arithmetic
InsertSignatureNow ==
    \E ends \in (now + 1)..(now + Year68 - 1) :
        LET sig == RR(<<>>, "RRSIG", CfgTtl, <<>>)
                       @@ [expiration |-> ends % SerialMod]
            e   == Elem(SigKey, SignatureExpiration(sig.expiration, now),
                        [answer |-> <<sig>>, extra |-> <<>>])
            c1  == IF SigKey \notin DOMAIN rcache.m
                       THEN [rcache EXCEPT !.l = <<e>> \o rcache.l,
                                           !.m = (SigKey :> e) @@ rcache.m]
                       ELSE rcache
        IN  /\ resp.path = "idle"
            /\ rcache.capacity # 0
            /\ rcache' = shrink([c1 EXCEPT !.size = (rcache.size + 1) % UintMod])
            /\ resp' = Inserted0("inserted", ends, now)
            /\ UNCHANGED <<store, dirs, expired, now, config>>

NextSigExp == TickSigExp \/ InsertSignatureNow

SpecSigExp == InitSigExp /\ [][NextSigExp]_vars

(***************************************************************************)
(* The cache under any history of all its operations, the insertion of     *)
(* signatures included.  resp keeps the last operation and the keys it has *)
(* dropped from the index map.                                             *)
(***************************************************************************)
KeysAgree == KeysLRU \cup {SigKey}

OpOf(op, key, before, after) ==
    [handler |-> "none", path |-> op, key |-> key,
     dropped |-> DOMAIN before.m \ DOMAIN after.m]

InitAgree ==
    /\ store = [k \in Keys |-> NoNode]
    /\ dirs = {}
    /\ expired = {}
    /\ now = 0
    /\ config = [Nameservers |-> 0]
    /\ rcache \in {NewCache(capacity) : capacity \in 1..MaxCapacity}
    /\ resp = OpOf("new", <<>>, rcache, rcache)

InsertMessageOp ==
    \E key \in KeysLRU, n \in 0..MaxRRs :
        /\ rcache' = InsertMessage(rcache, key, MsgOf(n))
        /\ resp' = OpOf("insert", key, rcache, rcache')
        /\ UNCHANGED <<store, dirs, expired, now, config>>

InsertSignatureOp ==
    /\ rcache' = InsertSignature(rcache, SigKey,
                                 RR(NameA, "RRSIG", CfgTtl, <<>>))
    /\ resp' = OpOf("insertsig", SigKey, rcache, rcache')
    /\ UNCHANGED <<store, dirs, expired, now, config>>

SearchKeyOp ==
    \E key \in KeysAgree :
        /\ rcache' = Search(rcache, key).cache
        /\ resp' = OpOf("search", key, rcache, rcache')
        /\ UNCHANGED <<store, dirs, expired, now, config>>

RemoveKeyOp ==
    \E key \in KeysAgree :
        /\ rcache' = Remove(rcache, key)
        /\ resp' = OpOf("remove", key, rcache, rcache')
        /\ UNCHANGED <<store, dirs, expired, now, config>>

NextAgree == InsertMessageOp \/ InsertSignatureOp \/ SearchKeyOp \/ RemoveKeyOp

SpecAgree == InitAgree /\ [][NextAgree]_vars

(***************************************************************************)
(* Properties.                                                             *)
(***************************************************************************)
\* a handler has answered from its own data: resp holds its one reply
Authoritative == resp.path \in {"auth", "hijack"}

\* the smallest TTL among rrs, a non-empty sequence
MinOf(rrs) ==
    CHOOSE t \in {rrs[i].ttl : i \in 1..Len(rrs)} :
        \A i \in 1..Len(rrs) : t <= rrs[i].ttl

\* the SOA records of a section
SOAs(rrs) == SelectSeq(rrs, LAMBDA r : r.rrtype = "SOA")

\* C1: in every response with a non-empty answer section all answer
\* records carry the same TTL, the minimum of the TTLs they had before the
\* rewrite.
C1_AnswerTtlIsMinimum ==
    Authoritative /\ Len(resp.replies[1].answer) > 0 =>
        \A i \in 1..Len(resp.replies[1].answer) :
            resp.replies[1].answer[i].ttl = MinOf(resp.pre)

\* C2: every authoritative NXDOMAIN or NODATA response has exactly one SOA
\* in its authority section, and the TTL of that SOA is the configured
\* minimum TTL.
C2_NegativeHasOneSOAAtMinTtl ==
    /\ Authoritative
    /\ resp.replies[1].aa
    /\ \/ resp.replies[1].rcode = "NXDOMAIN"
       \/ resp.replies[1].rcode = "NOERROR" /\ resp.replies[1].answer = <<>>
    => /\ Len(SOAs(resp.replies[1].ns)) = 1
       /\ SOAs(resp.replies[1].ns)[1].ttl = CfgMinTtl

\* the forwarder gave up: every exchange of the request failed
AllUpstreamsFailed ==
    /\ resp.path = "forward"
    /\ config.Nameservers > 0
    /\ resp.replies[1].rcode = "SERVFAIL"

\* C3: when all N upstreams fail the forwarder makes exactly N exchanges,
\* the first with upstream reqId mod N and each following one with the
\* circularly next upstream, and then answers SERVFAIL.
C3_ExactlyNExchanges ==
    AllUpstreamsFailed =>
        /\ Len(resp.exchanges) = config.Nameservers
        /\ \A i \in 1..Len(resp.exchanges) :
              resp.exchanges[i] = (resp.q.id + i - 1) % config.Nameservers
        /\ Len(resp.replies) = 1

\* the names of a sequence
Range(f) == {f[i] : i \in DOMAIN f}

RECURSIVE ChainWalk(_, _)
\* What the store holds from name on: the walk along the CNAMEs ends at an
\* address, at a name that is not there, or at a name seen before (a
\* cycle); cnames is the number of CNAMEs walked over.  follow is the number
\* of CNAMEs to follow before a target repeats the target of an earlier
\* one: all of them when the cycle is entered after the first name, one
\* more when it leads back to the first name, which is no target yet.
ChainWalk(name, seen) ==
    IF Path(name) \notin DOMAIN store
        THEN [end |-> "missing", cnames |-> Len(seen), follow |-> Len(seen)]
    ELSE IF IsIP(store[Path(name)].value.Host)
        THEN [end |-> "address", cnames |-> Len(seen), follow |-> Len(seen)]
    ELSE IF name \in Range(seen)
        THEN [end |-> "cycle", cnames |-> Len(seen),
              follow |-> IF name = seen[1] THEN Len(seen) + 1 ELSE Len(seen)]
    ELSE ChainWalk(Fqdn(store[Path(name)].value.Host), Append(seen, name))

Chain == ChainWalk(ChainName(1), <<>>)

\* the store was asked, it answered, and the address wanted is an A
ChainAnswered == resp.path = "auth" /\ resp.reach /\ resp.q.qtype = "A"

\* a chain of at most 8 CNAMEs that ends at an address is resolved to its
\* end: the answer holds every CNAME of the chain and the address of the
\* last name, in the order RoundRobin left them in
ChainResolved ==
    ChainAnswered /\ Chain.end = "address" /\ Chain.cnames <= 8 =>
        /\ resp.replies[1].rcode = "NOERROR"
        /\ Len(resp.replies[1].answer) = Chain.cnames + 1
        /\ {[name |-> r.name, rrtype |-> r.rrtype, data |-> r.data] :
               r \in Range(resp.replies[1].answer)}
           = {[name |-> ChainName(i), rrtype |-> "CNAME",
               data |-> ChainName(i + 1)] : i \in 1..Chain.cnames}
             \cup {[name |-> ChainName(Chain.cnames + 1), rrtype |-> "A",
                    data |-> IPv4]}

\* C4 as stated: CNAME resolution terminates for every store content, a
\* loop-free chain of at most 8 CNAMEs is resolved to its end, and every
\* cycle is reported as a CNAME loop.
C4_EveryCycleIsALoop ==
    /\ resp.path = "idle" => ENABLED QueryCNAME
    /\ ChainResolved
    /\ ChainAnswered /\ Chain.end = "cycle" => "loop" \in resp.ev

\* C4, amended: CNAME resolution terminates for every store content; a
\* loop-free chain of at most 8 CNAMEs is resolved to its end; a cycle is
\* reported as a CNAME loop when the CNAME whose target repeats an earlier
\* target is among the first 8 followed, and a longer cycle, like a longer
\* chain, as an exceeded lookup limit; in both cases nothing is answered.
C4_CyclesWithinLimitAreLoops ==
    /\ resp.path = "idle" => ENABLED QueryCNAME
    /\ ChainResolved
    /\ ChainAnswered /\ Chain.end = "cycle" /\ Chain.follow <= 8 =>
          /\ resp.ev \cap {"loop", "limit"} = {"loop"}
          /\ resp.replies[1].answer = <<>>
    /\ ChainAnswered /\ Chain.follow > 8 =>
          /\ resp.ev \cap {"loop", "limit"} = {"limit"}
          /\ resp.replies[1].answer = <<>>

\* a chain of exactly 8 CNAMEs has been resolved to its address
C4_Witness ==
    /\ ChainAnswered
    /\ Chain.end = "address"
    /\ Chain.cnames = 8
    /\ Len(resp.replies[1].answer) = 9

\* the record function went to the store and the store could not be reached
TransportError == resp.path = "auth" /\ resp.err = "transport"

\* C5: a backend transport error during record lookup is answered with
\* SERVFAIL, never with NOERROR/NODATA or NXDOMAIN.
C5_TransportErrorIsServfail ==
    TransportError => resp.replies[1].rcode = "SERVFAIL"

\* the query types the handler makes records for
Synthesised == {"A", "AAAA", "SRV", "TXT", "CNAME", "NS", "SOA", "DNSKEY"}

LoopOrLimit == resp.path = "auth" /\ resp.ev \cap {"loop", "limit"} # {}

Uncompleted ==
    /\ resp.path = "auth"
    /\ resp.q.qtype \in {"A", "AAAA"}
    /\ resp.err = "incomplete"
    /\ "lookup" \notin resp.ev

\* C8: when the CNAME resolution of an A/AAAA query cannot be completed the
\* answer section is empty: no partial CNAME chain is emitted.
C8_NoPartialChain == Uncompleted => resp.replies[1].answer = <<>>

\* the external lookup for the target of a CNAME has failed
C8_Witness ==
    /\ Uncompleted
    /\ "lookup failed" \in resp.ev
    /\ store[Path(NameA)] # NoNode
    /\ store[Path(NameA)].value.Host = HostOf(NameExt)
    /\ resp.replies[1].answer = <<>>

\* the name asked for is that of a leaf that has expired from the store,
\* and the type is one that is answered from the store
AskedForExpired ==
    /\ resp.path # "idle"
    /\ Path(ToLower(resp.q.name)) \in expired
    /\ resp.q.qtype \in {"A", "AAAA", "SRV", "TXT", "CNAME", "MX"}

\* C9 as stated: once the store-level TTL of a record has elapsed and the
\* store no longer holds it, a query for it is answered NXDOMAIN; the
\* record is never served again.
C9_ExpiredIsNameError ==
    AskedForExpired /\ resp.reach =>
        /\ resp.replies[1].rcode = "NXDOMAIN"
        /\ resp.replies[1].answer = <<>>

\* C9, amended: once the store-level TTL of a record has elapsed and the
\* store no longer holds it, a query for it that goes to the store, and
\* reaches it, is answered NXDOMAIN; the record is served after that only
\* from an entry of the response cache that has not expired.
C9_ExpiredIsNameErrorPastCache ==
    AskedForExpired =>
        /\ resp.path = "auth" /\ resp.reach =>
              /\ resp.replies[1].rcode = "NXDOMAIN"
              /\ resp.replies[1].answer = <<>>
        /\ resp.replies[1].answer # <<>> =>
              /\ resp.path = "hit"
              /\ QuestionKey(resp.q) \in DOMAIN rcache.m
              /\ now < rcache.m[QuestionKey(resp.q)].expiration

\* the query for an expired leaf went to the store and was answered NXDOMAIN
C9_Witness ==
    /\ AskedForExpired
    /\ resp.path = "auth"
    /\ resp.reach
    /\ resp.replies[1].rcode = "NXDOMAIN"

\* the PTR record of the name was found in the store
FoundLocally == resp.path = "reverse" /\ resp.err = "nil"

\* C10: a PTR query whose record is found locally is answered with that
\* single PTR reply and is not forwarded; it is forwarded only when the
\* local lookup fails.
C10_FoundLocallyIsNotForwarded ==
    /\ FoundLocally =>
          /\ Len(resp.replies) = 1
          /\ resp.exchanges = <<>>
          /\ Len(resp.replies[1].answer) = 1
          /\ resp.replies[1].answer[1].rrtype = "PTR"
    /\ resp.path = "reverse" /\ resp.exchanges # <<>> => resp.err # "nil"

\* C11: every request handled by the server results in a DNS reply being
\* written, on every path including the failure paths: no handler returns
\* without a reply, and a reply that is authoritative and negative carries
\* the SOA in its authority section.
C11_EveryRequestIsAnswered ==
    resp.path # "idle" =>
        /\ Len(resp.replies) >= 1
        /\ \A i \in 1..Len(resp.replies) :
              /\ resp.replies[i].id = resp.q.id
              /\ resp.path = "auth" /\ resp.replies[i].answer = <<>> =>
                    Len(SOAs(resp.replies[i].ns)) = 1

\* the forwarder has tried every upstream in vain and has answered SERVFAIL
C11_Witness ==
    /\ AllUpstreamsFailed
    /\ config.Nameservers = MaxNameservers
    /\ Len(resp.exchanges) > 1
    /\ Len(resp.replies) = 1

\* the request went through the dispatch of the handler: it was not refused,
\* not answered from the cache and not taken for a reverse name
Dispatched == resp.path \in {"auth", "hijack", "forward"}

\* C12: a query is handled authoritatively if and only if its name is the
\* configured domain or a sub-domain of it, compared label by label; every
\* other name that is not a reverse name is dispatched to the forwarder.
C12_AuthoritativeIffSubDomain ==
    Dispatched =>
        /\ Authoritative <=> IsSubDomain(Domain, resp.q.name)
        /\ resp.path = "forward" <=> ~IsSubDomain(Domain, resp.q.name)

\* an SRV query was answered from the store
SRVAnswered ==
    resp.path = "auth" /\ resp.q.qtype = "SRV" /\ resp.err = "nil"

RECURSIVE SumEmitted(_, _)
\* the sum of the weights of the SRV records of one priority
SumEmitted(rrs, priority) ==
    IF rrs = <<>> THEN 0
    ELSE (IF Head(rrs).rrtype = "SRV" /\ Head(rrs).data.priority = priority
              THEN Head(rrs).data.weight ELSE 0)
         + SumEmitted(Tail(rrs), priority)

\* C13: in every SRV answer set, for each priority class the emitted
\* weights sum to at most 100 and every individual weight is at least 0.
C13_WeightsSumToAtMost100 ==
    SRVAnswered =>
        \A i \in 1..Len(resp.replies[1].answer) :
            LET r == resp.replies[1].answer[i]
            IN  /\ r.rrtype = "SRV"
                /\ r.data.weight >= 0
                /\ SumEmitted(resp.replies[1].answer, r.data.priority) <= 100

\* two services of one priority with weights 1 and 2 were answered with
\* the weights 33 and 66
C13_Witness ==
    /\ SRVAnswered
    /\ resp.q.name = NameB
    /\ Len(resp.replies[1].answer) = 2
    /\ resp.replies[1].answer[1].data.weight = 33
    /\ resp.replies[1].answer[2].data.weight = 66
    /\ resp.replies[1].answer[1].data.priority
           = resp.replies[1].answer[2].data.priority

\* the leaves the store holds at or below the name asked for, in order
Asked == LeavesBelow(Path(ToLower(resp.q.name)))

\* the weight and the priority a leaf of the store counts with
StoredWeight(key) ==
    IF store[key].value.Weight = 0 THEN 100 ELSE store[key].value.Weight

StoredPriority(key) ==
    IF store[key].value.Priority = 0 THEN CfgPriority
    ELSE store[key].value.Priority

RECURSIVE SumStored(_, _)
\* W[p]: the sum of the weights of the leaves of one priority
SumStored(keys, priority) ==
    IF keys = <<>> THEN 0
    ELSE (IF StoredPriority(Head(keys)) = priority
              THEN StoredWeight(Head(keys)) ELSE 0)
         + SumStored(Tail(keys), priority)

\* C14: each emitted SRV weight equals floor(100 * w / W[p]), where w is
\* the weight of the service (100 when unset) and W[p] the sum of those
\* weights over all returned services of the same priority; a service that
\* is alone in its priority class gets weight 100.
C14_WeightIsFloorOfShare ==
    SRVAnswered =>
        /\ Len(resp.replies[1].answer) = Len(Asked)
        /\ \A i \in 1..Len(Asked) :
              resp.replies[1].answer[i].data.weight
                  = (100 * StoredWeight(Asked[i]))
                        \div SumStored(Asked, StoredPriority(Asked[i]))

\* the labels of the key of a leaf, below the anchor
LeafLabels(key) == Tail(Tail(Split(key, Slash)))

\* a leaf goes with a name when it has a label for each label of the name,
\* and each label of the name is the wildcard or the label of the leaf at
\* that place, whatever the case of the letters
WildcardMatch(key, qname) ==
    LET ql == Reverse(SplitDomainName(qname))
        kl == LeafLabels(key)
    IN  /\ Len(kl) >= Len(ql)
        /\ \A i \in 1..Len(ql) :
              ql[i] = Star \/ ToLower(kl[i]) = ToLower(ql[i])

\* an SRV query with a wildcard label that the store could be asked for
Enumerated ==
    /\ resp.path = "auth" /\ resp.reach
    /\ resp.q.qtype = "SRV"
    /\ PathWildcard(ToLower(resp.q.name)).star

\* the leaf is the target of an SRV record of the answer
Returned(key) ==
    \E j \in 1..Len(resp.replies) :
        \E i \in 1..Len(resp.replies[j].answer) :
            /\ resp.replies[j].answer[i].rrtype = "SRV"
            /\ resp.replies[j].answer[i].data.target = DomainOf(key)

Leaves == {k \in DOMAIN store : store[k] # NoNode}

\* C15: during wildcard enumeration a leaf is returned if and only if,
\* position by position, each query label is the wildcard or equals the
\* label of the leaf compared case-insensitively; leaves with fewer labels
\* than the query are skipped.
C15_WildcardMatchesLabelwise ==
    Enumerated =>
        \A k \in Leaves : Returned(k) <=> WildcardMatch(k, resp.q.name)

\* C15 for the leaves whose keys are in lower case
C15_LowerCaseLeaves ==
    Enumerated =>
        \A k \in Leaves :
            k = ToLower(k) => (Returned(k) <=> WildcardMatch(k, resp.q.name))

\* x.*.skydns.test. is answered with x.b, the leaves y.b and a are there
\* and left out
C15_Reached ==
    /\ Enumerated
    /\ resp.q.name = WildName(<<<<"x">>, Star>>)
    /\ {Path(NameA), Path(NameXB), Path(NameYB)} \subseteq Leaves
    /\ Returned(Path(NameXB)) /\ ~Returned(Path(NameYB))

\* the smallest of the values that are not zero, zero when all are
MinNonZero(values) ==
    IF values \ {0} = {} THEN 0
    ELSE CHOOSE v \in values \ {0} : \A w \in values \ {0} : v <= w

\* the leaf the query names
AskedLeaf == store[Path(ToLower(resp.q.name))]

\* the query was answered from the leaf it names
FromLeaf ==
    /\ resp.path \in {"auth", "reverse"} /\ resp.reach /\ resp.err = "nil"
    /\ resp.q.qtype \in {"A", "PTR"}
    /\ Path(ToLower(resp.q.name)) \in DOMAIN store /\ AskedLeaf # NoNode
    /\ Len(resp.replies[1].answer) = 1

\* C16: the TTL of every synthesised record is the minimum of the store
\* node TTL, the service record TTL and the configured default TTL, where
\* a zero value is ignored.
C16_TtlIsMinimumOfThree ==
    FromLeaf =>
        resp.replies[1].answer[1].ttl
            = MinNonZero({NodeTTL(AskedLeaf), AskedLeaf.value.Ttl, CfgTtl})

\* the rule of the README: the TTL of the service overrides the default,
\* the smaller of it and the etcd TTL counts; it holds for address records
C16_ServiceTtlOverridesDefault ==
    FromLeaf /\ resp.q.qtype = "A" =>
        resp.replies[1].answer[1].ttl
            = (IF NodeTTL(AskedLeaf) = 0 /\ AskedLeaf.value.Ttl = 0 THEN CfgTtl
               ELSE MinNonZero({NodeTTL(AskedLeaf), AskedLeaf.value.Ttl}))

\* a PTR record never has a TTL above that of its service
C16_PTRWithinServiceTtl ==
    FromLeaf /\ resp.q.qtype = "PTR" /\ AskedLeaf.value.Ttl # 0 =>
        resp.replies[1].answer[1].ttl <= AskedLeaf.value.Ttl

\* the canonical form of a name: in lower case and fully qualified
Canonical(n) == ToLower(Fqdn(n))

\* the targets of the SRV records of the answer
Targets ==
    {resp.replies[1].answer[i].data.target :
        i \in 1..Len(resp.replies[1].answer)}

\* the leaves at or below the name asked for
AskedLeaves ==
    {k \in Leaves : k = Path(ToLower(resp.q.name))
                       \/ Below(Path(ToLower(resp.q.name)), k)}

\* C17: for every name n without a wildcard label, converting n to a store
\* path and converting that path back yields the canonical (lower-cased,
\* fully-qualified) form of n.  Here n is the name a service was registered
\* under, the path is the key of its leaf, and the name the key is turned
\* back into is the target of its SRV record.
C17_PathDomainRoundTrip ==
    /\ \A k \in Leaves :
          ~PathWildcard(store[k].name).star
              => DomainOf(Path(store[k].name)) = Canonical(store[k].name)
    /\ SRVAnswered =>
          Targets = {Canonical(store[k].name) : k \in AskedLeaves}

\* the round trip for names in lower case without a slash in a label
C17_PlainNames ==
    /\ \A k \in Leaves :
          /\ store[k].name = ToLower(store[k].name)
          /\ store[k].name # NameSlash
          => DomainOf(Path(store[k].name)) = Canonical(store[k].name)
    /\ SRVAnswered
          /\ (\A k \in AskedLeaves : /\ store[k].name = ToLower(store[k].name)
                                      /\ store[k].name # NameSlash)
          => Targets = {Canonical(store[k].name) : k \in AskedLeaves}

\* x.b.skydns.test, registered without the closing dot, is the target
\* x.b.skydns.test. of the answer to a query for b.skydns.test.
C17_Reached ==
    /\ SRVAnswered /\ resp.q.name = NameB
    /\ store[Path(NameXB)] # NoNode
    /\ store[Path(NameXB)].name = HostOf(NameXB)
    /\ NameXB \in Targets

\* a request is answered from the cache in this step
HitStep == resp.path = "idle" /\ resp'.path = "hit"

C19_EntriesNotSharedAcrossDO ==
    resp.path = "hit" /\ QuestionKeyMain(resp.q) \in DOMAIN rcache.m =>
        rcache.m[QuestionKeyMain(resp.q)].msg.do = resp.q.do

\* no two entries of the cache are for the same name and type
C19_OneEntryPerNameAndType ==
    \A s, t \in DOMAIN rcache.m : s[1] = t[1] /\ s[2] = t[2] => s = t

\* a request without the DO bit is answered from the cache
C19_Reached ==
    /\ resp.path = "hit" /\ ~resp.q.do
    /\ QuestionKeyMain(resp.q) \in DOMAIN rcache.m

\* an RRset has been signed
SignedSet == resp.path \in {"sighit", "sigmiss"}

\* the RRSIG that went out with the RRset
SentSig == resp.replies[1].answer[Len(resp.replies[1].answer)]

\* C20: two RRsets that differ in owner name, type or the rdata of any
\* member have different signature-cache keys, so a cached RRSIG is only
\* ever reused for the exact RRset it was generated for.
C20_KeyTellsRRsetsApart ==
    /\ \A s \in DOMAIN rcache.m :
          \A rrs \in RRsets :
              Key(rrs) = s => rcache.m[s].msg.answer[1] = NewRRSIG(rrs)
    /\ SignedSet => SentSig = NewRRSIG(resp.pre)

\* RRsets that differ in the owner or in the type have different keys
C20_OwnerAndTypeInKey ==
    /\ \A s \in DOMAIN rcache.m :
          \A rrs \in RRsets :
              Key(rrs) = s =>
                  /\ rcache.m[s].msg.answer[1].name = rrs[1].name
                  /\ rcache.m[s].msg.answer[1].data.covered = rrs[1].rrtype
    /\ SignedSet =>
          /\ SentSig.name = resp.pre[1].name
          /\ SentSig.data.covered = resp.pre[1].rrtype

\* an RRSIG from the cache goes out with the RRset it was made for
C20_Reached ==
    /\ resp.path = "sighit"
    /\ resp.pre[1].rrtype = "A" /\ Len(resp.pre) = 2
    /\ SentSig = NewRRSIG(resp.pre)

RECURSIVE HeldRRs(_)
\* the number of RRs in the elements of a list
HeldRRs(l) == IF l = <<>> THEN 0 ELSE ElemSize(Head(l)) + HeldRRs(Tail(l))

\* C21: after any sequence of insert, search and remove operations, the
\* size counter of the cache equals the total number of RRs in the entries
\* it currently holds; it never drifts from that total and never wraps
\* below zero.
C21_SizeIsHeldRRs == rcache.size = HeldRRs(rcache.l)

\* the counter is never below what the cache holds; in SpecCache the Remove
\* of an expired element without RRs takes it from 0 to the largest value
C21_SizeCoversHeldRRs == rcache.size >= HeldRRs(rcache.l)

\* the length of the chain in the store
ChainLength == Cardinality(DOMAIN store)

\* the chain leaves the domain after at most 8 CNAMEs, and the store was
\* asked for an address of its first name and answered
LeftDomain ==
    /\ resp.path = "auth" /\ resp.reach
    /\ resp.q.name = ChainName(1)
    /\ ChainLength <= 8
    /\ store[Path(ChainName(ChainLength))].value.Host = HostOf(NameExt)

\* the answer begins with the CNAMEs of the whole chain
WholeChain ==
    /\ Len(resp.replies[1].answer) >= ChainLength
    /\ \A i \in 1..ChainLength :
          /\ resp.replies[1].answer[i].rrtype = "CNAME"
          /\ resp.replies[1].answer[i].name = ChainName(i)
          /\ resp.replies[1].answer[i].data
                = (IF i < ChainLength THEN ChainName(i + 1) ELSE NameExt)

\* what follows the chain in the answer is what the upstream answered
ForwardedFollow ==
    SubSeq(resp.replies[1].answer, ChainLength + 1,
           Len(resp.replies[1].answer))
        \in {[i \in 1..Len(a) |-> SetTtl(a[i], x)] :
                a \in UpstreamAnswers(NameExt, resp.q.qtype), x \in 0..CfgTtl}

\* C22: when an in-domain CNAME chain of any permitted length leads to a
\* target outside the authoritative domain, the server looks that terminal
\* name up through the forwarder and answers with the whole CNAME chain
\* followed by the forwarded records.
C22_ChainLeavingDomainIsForwarded ==
    LeftDomain =>
        /\ resp.ev \cap {"lookup", "lookup failed"} # {}
        /\ "lookup" \in resp.ev => WholeChain /\ ForwardedFollow

\* C22 for a single CNAME that leaves the domain
C22_SingleCNAME ==
    LeftDomain /\ ChainLength = 1 =>
        /\ resp.ev \cap {"lookup", "lookup failed"} # {}
        /\ "lookup" \in resp.ev => WholeChain /\ ForwardedFollow

\* no chain of two or more CNAMEs that leaves the domain is ever looked up
C22_LongerChainsAreNoData ==
    LeftDomain /\ ChainLength > 1 =>
        /\ resp.ev \cap {"lookup", "lookup failed"} = {}
        /\ resp.replies[1].rcode = "NOERROR"
        /\ resp.replies[1].answer = <<>>

\* c1 -> ext.com. was looked up and answered with the CNAME and an address
C22_Reached ==
    /\ LeftDomain /\ ChainLength = 1 /\ "lookup" \in resp.ev
    /\ Len(resp.replies[1].answer) = 2

\* the store was asked and the reply is the NODATA of a CNAME chain that
\* could not be completed
IncompleteNoData ==
    /\ resp.path = "auth" /\ resp.reach
    /\ resp.err = "incomplete"
    /\ resp.replies[1].rcode = "NOERROR"
    /\ resp.replies[1].answer = <<>>

\* C23: a NODATA response produced because a CNAME chain could not be
\* completed is not inserted into the response cache.
C23_IncompleteChainBypassesCache ==
    IncompleteNoData => QuestionKey(resp.q) \notin DOMAIN rcache.m

\* the deferred function inserts that NODATA response as it does any other
C23_IncompleteChainIsCached ==
    IncompleteNoData =>
        /\ QuestionKey(resp.q) \in DOMAIN rcache.m
        /\ rcache.m[QuestionKey(resp.q)].msg.answer = <<>>
        /\ rcache.m[QuestionKey(resp.q)].msg.rcode = "NOERROR"

\* and the next query for the name is answered with it from the cache
C23_Reached ==
    /\ resp.path = "hit"
    /\ resp.q.name = ChainName(1)
    /\ ChainLength > 1
    /\ resp.replies[1].answer = <<>>

\* the handler has returned
Finished == resp.pc = Returned0

\* how many times statement st of the deferred function has acted
Times(st) == Cardinality({i \in DOMAIN resp.steps : resp.steps[i] = st})

\* statement a has never acted after statement b
Before(a, b) ==
    \A i, j \in DOMAIN resp.steps :
        resp.steps[i] = a /\ resp.steps[j] = b => i < j

\* C24: for every response, the minimum-TTL rewrite happens exactly once
\* and before the response-cache insert; the cache insert happens before
\* denial synthesis and signing, and only when the response was not served
\* from the cache.
C24_RewriteOnceInsertThenSign ==
    Finished =>
        /\ Times("rewrite") = 1
        /\ Before("rewrite", "insert")
        /\ Before("insert", "sign")
        /\ Times("insert") > 0 => resp.path # "hit"

\* C24 with the rewrite counted over the life of the records and not over
\* the request: what is written has been through the rewrite exactly once
C24_RewrittenOnceInItsLife ==
    Finished =>
        /\ resp.m.passes = 1
        /\ Before("rewrite", "insert")
        /\ Before("insert", "sign")
        /\ Times("insert") > 0 => resp.path # "hit"

\* C24 as the code has it: a response made from the store goes through the
\* rewrite once, then into the cache, then through denial and signing, and
\* is then written; a hit of package server is written as it is, with the
\* one rewrite it had before it was cached, and a hit of package main goes
\* through the deferred function but for the insert, which is a second
\* rewrite of its records.
C24_OrderOfDeferred ==
    Finished =>
        /\ Before("rewrite", "insert")
        /\ Before("insert", "sign")
        /\ Before("sign", "write")
        /\ Times("write") = 1
        /\ Times("insert") = (IF resp.path = "hit" THEN 0 ELSE 1)
        /\ Times("rewrite")
             = (IF resp.handler = "server" /\ resp.path = "hit" THEN 0 ELSE 1)
        /\ resp.m.passes
             = (IF resp.handler = "main" /\ resp.path = "hit" THEN 2 ELSE 1)

\* a response made from the store has been rewritten, cached, signed and
\* written
C24_Reached ==
    /\ Finished
    /\ resp.path = "auth"
    /\ resp.steps = <<"rewrite", "insert", "sign", "write">>
    /\ KeyOrder0(resp.q) \in DOMAIN rcache.m

\* the key of the question that is answered in this step
AnsweredKey ==
    IF resp'.handler = "server" THEN QuestionKey(resp'.q)
    ELSE QuestionKeyMain(resp'.q)

\* a handler consults the cache in this step
Consults == resp.path = "idle" /\ resp'.path \in {"hit", "auth"}

\* the cache holds an entry for the question that is answered
Held == AnsweredKey \in DOMAIN rcache.m

\* the data of the records in rrs
DataOf(rrs) == {rrs[i].data : i \in DOMAIN rrs}

\* C25, first half: a fresh cache hit is answered without any store access
\* and with the id of the current request
C25_FreshHit ==
    [][Consults /\ resp'.path = "hit" =>
          /\ Held /\ now < rcache.m[AnsweredKey].expiration
          /\ resp'.replies[1].id = resp'.q.id
          /\ resp'.ev = {}
          /\ DataOf(resp'.replies[1].answer)
                = DataOf(rcache.m[AnsweredKey].msg.answer)]_vars

\* C25, second half: an entry past its expiration is never served
C25_ExpiredNeverServed ==
    [][Consults /\ Held /\ now >= rcache.m[AnsweredKey].expiration
          => resp'.path # "hit"]_vars

\* C25, second half: an entry past its expiration is removed from the cache
\* by the access that finds it expired (the handler may insert a new entry
\* under the key before it returns)
C25_ExpiredIsRemoved ==
    [][Consults /\ Held /\ now >= rcache.m[AnsweredKey].expiration
          => \/ AnsweredKey \notin DOMAIN rcache'.m
             \/ rcache'.m[AnsweredKey].expiration > now]_vars

\* what package main does remove: the expired entries that hold an answer
C25_ExpiredAnswersAreRemoved ==
    [][(Consults /\ Held /\ now >= rcache.m[AnsweredKey].expiration
                 /\ rcache.m[AnsweredKey].msg.answer # <<>>)
          => (\/ AnsweredKey \notin DOMAIN rcache'.m
              \/ rcache'.m[AnsweredKey].expiration > now)]_vars

\* a name that is gone from the store is answered from the cache
C25_Reached ==
    /\ resp.path = "hit"
    /\ resp.q.name = NameA
    /\ store[Path(NameA)] = NoNode
    /\ resp.replies[1].answer # <<>>

\* an expired entry without an answer is still in the cache of package main
\* after a query for its name
C25_ExpiredLeftBehind ==
    /\ resp.handler = "main" /\ resp.path = "auth"
    /\ QuestionKeyMain(resp.q) \in DOMAIN rcache.m
    /\ rcache.m[QuestionKeyMain(resp.q)].expiration <= now

\* the handler has made its response from the store and its deferred
\* function has inserted it into the cache
Inserted == resp.path = "auth"

\* the keys of the list l but for key, front first
KeysBut(l, key) ==
    LET ks == [i \in DOMAIN l |-> l[i].key]
    IN  SelectSeq(ks, LAMBDA k : k # key)

\* C26, first half: after every insert returns, the number of RRs held by
\* the cache does not exceed its capacity
C26_HeldWithinCapacity == Inserted => HeldRRs(rcache.l) <= rcache.capacity

\* C26, second half: eviction removes entries strictly in least-recently-
\* used order, where both inserts and lookups count as use: the entry of
\* the question is at the front when it is there, and the other entries
\* that are left are the front of the list as it was, in the same order
C26_EvictionIsLRU ==
    [][Consults =>
          LET old == KeysBut(rcache.l, AnsweredKey)
              new == KeysBut(rcache'.l, AnsweredKey)
          IN  /\ Len(new) <= Len(old)
              /\ new = SubSeq(old, 1, Len(new))
              /\ AnsweredKey \in DOMAIN rcache'.m
                    => rcache'.l[1].key = AnsweredKey]_vars

\* what shrink does keep: the counter within the capacity, or nothing
C26_CounterWithinCapacity ==
    Inserted => rcache.size <= rcache.capacity \/ rcache.l = <<>>

\* an insert has evicted the entry used least recently and kept another
C26_Reached ==
    /\ Inserted
    /\ Len(rcache.l) = 1
    /\ rcache.l[1].key = QuestionKey(resp.q)
    /\ HeldRRs(rcache.l) = rcache.capacity

\* C27, first half: for any history of cache operations, a lookup that
\* immediately follows the insertion of an entry whose RR count fits
\* within the capacity finds an entry under that key
C27_LookupAfterInsertFinds ==
    [][(resp.path = "insert" /\ resp.n <= rcache.capacity
            /\ resp'.path = "search" /\ resp'.key = resp.key)
          => resp'.found]_vars

\* some insert of an entry that fits within the capacity would stay
SomeInsertStays ==
    \E key \in KeysLRU, n \in 0..rcache.capacity :
        key \in DOMAIN InsertMessage(rcache, key, MsgOf(n)).m

\* C27, second half: the cache cannot reach a state in which every newly
\* inserted entry is evicted at once
C27_NeverEvictsEveryInsert == SomeInsertStays

\* the lookup does find the entry as long as the counter is the number of
\* RRs held before the insert
C27_LookupFindsWhileCounterRight ==
    [][(resp'.path = "insert" /\ resp'.n <= rcache.capacity
            /\ rcache.size = HeldRRs(rcache.l)
            /\ resp'.key \notin DOMAIN rcache.m)
          => resp'.key \in DOMAIN rcache'.m]_vars

\* the cache is empty, its counter is above the capacity, and nothing that
\* is inserted stays
C27_Stuck ==
    /\ rcache.l = <<>>
    /\ rcache.size > rcache.capacity
    /\ ~SomeInsertStays

\* handler g is changing the list
Moving(g) == resp.pc[g] = "moving"

\* C28: every mutation of a cache's LRU list and index map, including the
\* move-to-front done by a lookup, is performed while holding that cache's
\* exclusive lock, so no two handlers ever modify the list concurrently.
C28_MutationsHoldExclusiveLock ==
    /\ \A g \in Handlers : Moving(g) => resp.writer = g
    /\ \A g, h \in Handlers : Moving(g) /\ Moving(h) => g = h

\* C28 for the Cache whose Search takes the write lock, and for the inserts
\* of every cache
C28_ExclusiveWhereLocked ==
    \A g \in Handlers :
        Moving(g) /\ (~config.shared \/ resp.op[g] = "insert")
            => /\ resp.writer = g
               /\ \A h \in Handlers : Moving(h) => g = h

\* the list and the index agree as long as no two handlers have raced
C28_ListIntactWithoutRace ==
    ~config.shared /\ (\A g \in Handlers : ~Moving(g))
        => Len(rcache.l) = Cardinality(DOMAIN rcache.m)

\* two searches under the read lock change the list at the same time
C28_TwoMoving ==
    /\ config.shared
    /\ \A g \in Handlers : g <= 2 => Moving(g) /\ resp.op[g] = "search"
    /\ resp.writer = 0

\* after the race an element of the index is no longer in the list
C28_ListBroken ==
    /\ \A g \in Handlers : resp.pc[g] = "idle"
    /\ Len(rcache.l) < Cardinality(DOMAIN rcache.m)

OwnEntry == resp.aliased /\ KeyOrder0(resp.q) \in DOMAIN rcache.m

MissReplies(q) ==
    {Signed([ret.m EXCEPT !.answer = RewriteTtl(@)], q) :
        ret \in UNION {ServeAuth(q, config.Nameservers, reach) :
                          reach \in BOOLEAN}}

MissUnsigned(q) ==
    {[ret.m EXCEPT !.answer = RewriteTtl(@)] :
        ret \in UNION {ServeAuth(q, config.Nameservers, reach) :
                          reach \in BOOLEAN}}

\* a and b are the same response but for the order of the address records
SameContent(a, b) ==
    /\ a.id = b.id
    /\ a.rcode = b.rcode
    /\ a.ns = b.ns
    /\ a.extra = b.extra
    /\ a.answer \in RoundRobin(b.answer) \cup {b.answer}

ServedFromCache == resp.handler = "server" /\ resp.path = "hit"

\* C31: a response served from the response cache equals the response the
\* pipeline would build on a miss for the same query and store state (same
\* rcode and the same answer, authority and additional content, including
\* DNSSEC records for DO queries), apart from the message id and the order
\* of A/AAAA records.
C31_HitEqualsMiss ==
    ServedFromCache =>
        \E m \in MissReplies(resp.q) : SameContent(resp.replies[1], m)

\* what a hit does equal: the response of a miss as it was before denial
C31_HitEqualsMissBeforeDenial ==
    ServedFromCache =>
        \E m \in MissUnsigned(resp.q) : SameContent(resp.replies[1], m)

\* C31 for the queries without the DO bit
C31_HitEqualsMissWithoutDO ==
    ServedFromCache /\ ~resp.q.do =>
        \E m \in MissReplies(resp.q) : SameContent(resp.replies[1], m)

\* a DO query is answered NODATA from the cache
C31_Reached ==
    /\ ServedFromCache /\ resp.q.do
    /\ resp.replies[1].answer = <<>>

\* the store was reached and has answered the question NXDOMAIN
AnsweredNameError ==
    /\ resp.handler = "server" /\ resp.path = "auth" /\ resp.reach
    /\ resp.replies[1].rcode = "NXDOMAIN"

\* every answer the store as it is gives for the name of the question and
\* type t is NXDOMAIN
NameErrorFor(t) ==
    \A ret \in ServeAuth([resp.q EXCEPT !.qtype = t], config.Nameservers, TRUE) :
        ret.m.rcode = "NXDOMAIN"

\* C32: for a fixed store state, whether a name in the authoritative zone
\* is answered NXDOMAIN does not depend on the query type: if one query
\* type yields NXDOMAIN for a name, every query type does.
C32_NameErrorForEveryType ==
    AnsweredNameError => \A t \in QTypes \ {"ANY"} : NameErrorFor(t)

\* C32 below the apex and but for NS, which is answered NODATA for every
\* name below the apex
C32_NameErrorForEveryTypeButNS ==
    AnsweredNameError /\ ToLower(resp.q.name) # Domain =>
        /\ resp.q.qtype # "NS"
        /\ \A t \in QTypes \ {"ANY", "NS"} : NameErrorFor(t)
        /\ ~NameErrorFor("NS")

\* a name that is not in the store has been answered NXDOMAIN
C32_Reached ==
    /\ AnsweredNameError
    /\ resp.q.name = NameNX
    /\ resp.q.qtype = "TXT"

\* the services that the enumeration of the answered query returned
ServicesReturned == loopNodesMain(ToLower(resp.q.name))

\* the handler of package main has enumerated the leaves below a directory
EnumeratedDir ==
    /\ resp.handler = "main" /\ resp.path = "auth" /\ resp.reach
    /\ Get(PathWildcard(ToLower(resp.q.name)).path, TRUE).err = "nil"
    /\ Get(PathWildcard(ToLower(resp.q.name)).path, TRUE).dir

\* C33: the services returned by one enumeration never contain two entries
\* with the same (host, port, priority, weight)
C33_NoTwoSameServices ==
    EnumeratedDir =>
        \A i, j \in 1..Len(ServicesReturned) :
            bareService(ServicesReturned[i]) = bareService(ServicesReturned[j]) => i = j

\* C33, of the leaves as they are registered: no two of the services
\* returned come from leaves that hold the same (host, port, priority,
\* weight), and of such leaves the first one in etcd's order is returned
C33_NoTwoSameLeaves ==
    EnumeratedDir =>
        /\ \A i, j \in 1..Len(ServicesReturned) :
              bareService(store[ServicesReturned[i].key].value)
                    = bareService(store[ServicesReturned[j].key].value) => i = j
        /\ \A i \in 1..Len(ServicesReturned) :
              \A k \in 1..Len(KeyOrder) :
                  (/\ KeyOrder[k] \in DOMAIN store
                   /\ store[KeyOrder[k]] # NoNode
                   /\ Below(PathWildcard(ToLower(resp.q.name)).path, KeyOrder[k])
                   /\ bareService(store[KeyOrder[k]].value)
                         = bareService(store[ServicesReturned[i].key].value))
                  => \E k0 \in 1..k : KeyOrder[k0] = ServicesReturned[i].key

\* two leaves with the same registered tuple were enumerated, one was dropped
C33_Reached ==
    /\ EnumeratedDir
    /\ Len(ServicesReturned) = 1
    /\ store[Path(NameXB)] # NoNode /\ store[Path(NameYB)] # NoNode
    /\ resp.q.name = NameB /\ resp.q.qtype = "SRV"

\* a leaf without a priority and one with the default one are both returned
C33_SameAfterDefault ==
    /\ EnumeratedDir
    /\ \E i, j \in 1..Len(ServicesReturned) :
          i # j /\ bareService(ServicesReturned[i]) = bareService(ServicesReturned[j])

\* two RRs with the same owner name, type and rdata
SameRR(a, b) == [a EXCEPT !.ttl = 0] = [b EXCEPT !.ttl = 0]

NoDuplicates(rrs) ==
    \A i, j \in 1..Len(rrs) : SameRR(rrs[i], rrs[j]) => i = j

\* the handler of package main has written an answer of its own
WrittenMain ==
    /\ resp.handler = "main" /\ resp.path = "auth" /\ resp.reach
    /\ Len(resp.replies) = 1

\* C34: the response of package main is written without duplicate RRs in
\* its answer, authority and additional sections
C34_WrittenWithoutDuplicates ==
    WrittenMain =>
        /\ NoDuplicates(resp.replies[1].answer)
        /\ NoDuplicates(resp.replies[1].ns)
        /\ NoDuplicates(resp.replies[1].extra)

\* C34, as MsgDedup leaves the message: the answer is written with every RR
\* the handler returned with, in their order
C34_WrittenAsReturned ==
    WrittenMain =>
        /\ Len(resp.replies[1].answer) = Len(resp.pre)
        /\ \A i \in 1..Len(resp.pre) :
              SameRR(resp.replies[1].answer[i], resp.pre[i])

\* an answer was written that holds the same RR twice
C34_DuplicateWritten ==
    /\ WrittenMain
    /\ ~NoDuplicates(resp.replies[1].answer)

\* the handler of package server has answered an address query of its own
\* data, the records having gone through RoundRobin
AnsweredAddresses ==
    /\ resp.handler = "server" /\ resp.path = "auth" /\ resp.reach
    /\ resp.q.qtype \in {"A", "AAAA"}
    /\ Len(resp.replies) = 1

\* the places of the CNAMEs in an answer
CNAMEsIn(rrs) == {i \in 1..Len(rrs) : rrs[i].rrtype = "CNAME"}

\* C35: round-robin shuffling changes the places of A/AAAA records only, a
\* CNAME keeps its place ahead of the address records it leads to
C35_CNAMEAheadOfAddresses ==
    AnsweredAddresses =>
        LET a == resp.replies[1].answer
        IN  \A i \in CNAMEsIn(a) :
                \A j \in 1..Len(a) : a[j].rrtype \in {"A", "AAAA"} => i < j

\* C35, for what the last call leaves alone: an answer with more than one
\* CNAME begins with the CNAME of the name asked, and an answer without a
\* CNAME holds address records of the name asked only
C35_TwoCNAMEsLeadWithTheFirst ==
    AnsweredAddresses =>
        LET a == resp.replies[1].answer
        IN  /\ Cardinality(CNAMEsIn(a)) > 1 =>
                  a[1].rrtype = "CNAME" /\ a[1].name = resp.q.name
            /\ CNAMEsIn(a) = {} =>
                  \A j \in 1..Len(a) : a[j].name = resp.q.name

\* an address record was written ahead of the CNAME that leads to it
C35_AddressAheadOfCNAME ==
    /\ AnsweredAddresses
    /\ Len(resp.replies[1].answer) = 2
    /\ resp.replies[1].answer[1].rrtype = "A"
    /\ resp.replies[1].answer[2].rrtype = "CNAME"

\* the name asked lies under in-addr.arpa. or under ip6.arpa.
UnderInAddr == HasSuffix(ToLower(resp.q.name), <<Dot, "in-addr", Dot, "arpa", Dot>>)

UnderIp6 == HasSuffix(ToLower(resp.q.name), <<Dot, "ip6", Dot, "arpa", Dot>>)

\* the handler went on to dispatch the query: it was not refused for its type
DispatchedOn == resp.path \notin {"idle", "refused"}

\* C36: a query is dispatched to the reverse handler if and only if its
\* type is PTR and its name lies under in-addr.arpa. or ip6.arpa.
C36_ReverseIffPTRInReverseZone ==
    DispatchedOn =>
        (resp.path = "reverse"
            <=> (resp.q.qtype = "PTR" /\ (UnderInAddr \/ UnderIp6)))

\* C36, as the condition binds: PTR under in-addr.arpa. and every type
\* under ip6.arpa. go to the reverse handler, and nothing else does
C36_ReverseIffPTRInAddrOrIp6 ==
    DispatchedOn =>
        (resp.path = "reverse"
            <=> ((resp.q.qtype = "PTR" /\ UnderInAddr) \/ UnderIp6))

\* a PTR query under in-addr.arpa. was dispatched to the reverse handler
C36_Reached ==
    /\ resp.path = "reverse" /\ resp.q.qtype = "PTR" /\ resp.q.name = NameRev

\* an A query under ip6.arpa. was dispatched to the reverse handler, the
\* same under in-addr.arpa. was not
C36_AddressQueryReversed ==
    /\ resp.path = "reverse" /\ resp.q.qtype = "A" /\ resp.q.name = NameRev6

RECURSIVE BigEndian(_)
\* the bytes of a hash as an integer, the first byte the most significant
BigEndian(b) ==
    IF b = <<>> THEN 0
    ELSE BigEndian(SubSeq(b, 1, Len(b) - 1)) * ByteMod + b[Len(b)]

\* the number of hashes of the width
HashMod == Power(ByteMod, HashLen)

C37_HashStrictlyBetween ==
    resp.path = "nameerror" =>
        /\ BigEndian(resp.owner) < BigEndian(resp.hash)
        /\ BigEndian(resp.hash) < BigEndian(resp.next)

\* C37, for the hashes that have a hash before and a hash after them
C37_AroundHashWithinRange ==
    (/\ resp.path = "nameerror"
     /\ BigEndian(resp.hash) > 0
     /\ BigEndian(resp.hash) < HashMod - 1) =>
        /\ BigEndian(resp.owner) = BigEndian(resp.hash) - 1
        /\ BigEndian(resp.next) = BigEndian(resp.hash) + 1

\* a carry and a borrow went over a byte
C37_Reached ==
    /\ resp.path = "nameerror"
    /\ resp.hash = [i \in 1..HashLen |-> IF i = 1 THEN 1 ELSE 0]

\* the hash of all zeros: owner and next are both the hash of all ones
C37_NextStuck ==
    /\ resp.path = "nameerror"
    /\ BigEndian(resp.hash) = 0
    /\ resp.next = resp.owner

\* a signature has been inserted and is held
SignatureHeld ==
    /\ resp.path = "inserted"
    /\ SigKey \in DOMAIN rcache.m

\* C38: the expiration stored with a cached signature is the time the
\* signature ends at, which lies in the future at the moment of insertion
C38_StoredExpirationInFuture ==
    SignatureHeld =>
        /\ rcache.m[SigKey].expiration = resp.ends
        /\ rcache.m[SigKey].expiration > resp.at

\* C38, as the field is kept: the stored expiration is the field of the
\* RRSIG taken for a time as it is; it is the end of the signature, in the
\* future, as long as the end is below 2^32, also when the end is beyond
\* 2^31 and the clock is not
C38_StoredExpirationIsField ==
    SignatureHeld =>
        /\ rcache.m[SigKey].expiration = resp.ends % SerialMod
        /\ resp.ends < SerialMod =>
              /\ rcache.m[SigKey].expiration = resp.ends
              /\ rcache.m[SigKey].expiration > resp.at

\* the end of the signature is beyond 2^31 and the clock is not
C38_Reached ==
    /\ SignatureHeld
    /\ resp.at < Year68 /\ resp.ends > Year68 /\ resp.ends < SerialMod

\* the end of the signature is beyond 2^32: it is kept until a time long past
C38_StoredInThePast ==
    /\ SignatureHeld
    /\ resp.ends >= SerialMod
    /\ rcache.m[SigKey].expiration < resp.at

\* the index map and the list of a cache hold the same elements
Agree(c) ==
    /\ DOMAIN c.m = {c.l[i].key : i \in 1..Len(c.l)}
    /\ \A i, j \in 1..Len(c.l) : c.l[i].key = c.l[j].key => i = j
    /\ \A k \in DOMAIN c.m :
          /\ c.m[k].key = k
          /\ \E i \in 1..Len(c.l) : c.l[i] = c.m[k]

\* C39: after any sequence of cache operations each key maps to exactly
\* one list element carrying that key, and each list element is indexed
\* under its own key
C39_MapAndListAgree == Agree(rcache)

\* an insertion has made shrink drop another key, and the key inserted is
\* held together with a second one
C39_Reached ==
    /\ resp.path \in {"insert", "insertsig"}
    /\ resp.dropped # {} /\ resp.key \notin resp.dropped
    /\ resp.key \in DOMAIN rcache.m
    /\ Len(rcache.l) > 1

====
